---- MODULE Spec2Model ----
\* A model of the zolang scanner (src/scanner/scanner.go): the scanner's
\* fields, the File it adds lines to, the error handler's log, and the
\* operations Init and Scan with every helper they call.
\*
\* Source text is a sequence of bytes (0..255), runes are integers, -1 is the
\* end-of-input rune.  Offsets are 0-based as in the source; TLA+ sequences are
\* 1-based, so byte i of src is src[i+1].
EXTENDS Integers, Sequences, FiniteSets, TLC

VARIABLES s, ret, t, tret, op, hist, prev, fset, wire, seen, list,
          mutex, pc, loc, lin

vars == <<s, ret, t, tret, op, hist, prev, fset, wire, seen, list,
          mutex, pc, loc, lin>>

-----------------------------------------------------------------------------
\* Characters and library constants.

\* The byte values of the characters the scanner names.
chr == [ nul |-> 0, tab |-> 9, nl |-> 10, cr |-> 13, sp |-> 32, bang |-> 33,
         dq |-> 34, hash |-> 35, pct |-> 37, amp |-> 38, sq |-> 39,
         lparen |-> 40, rparen |-> 41, star |-> 42, plus |-> 43, comma |-> 44,
         minus |-> 45, dot |-> 46, slash |-> 47, d0 |-> 48, d1 |-> 49,
         d3 |-> 51,
         d4 |-> 52, d7 |-> 55, d8 |-> 56, d9 |-> 57, colon |-> 58, lt |-> 60, eq |-> 61,
         gt |-> 62, at |-> 64, A |-> 65, E |-> 69, F |-> 70, U |-> 85,
         X |-> 88, Z |-> 90, lbrack |-> 91, bs |-> 92, rbrack |-> 93,
         us |-> 95, a |-> 97, b |-> 98, d |-> 100, e |-> 101, f |-> 102, l |-> 108,
         n |-> 110, r |-> 114, s |-> 115, t |-> 116, u |-> 117, v |-> 118,
         x |-> 120, z |-> 122, lbrace |-> 123, bar |-> 124, rbrace |-> 125 ]

bom == 65279

eof == 0 - 1

RuneSelf == 128

RuneError == 65533

MaxRune == 1114111

\* "true" and "false" as byte strings.
strTrue == <<chr.t, chr.r, chr.u, chr.e>>

strFalse == <<chr.f, chr.a, chr.l, chr.s, chr.e>>

\* b[lo:hi] of the source: the bytes at 0-based offsets lo .. hi-1.
Slice(b, lo, hi) == SubSeq(b, lo + 1, hi)

InRange(x, lo, hi) == lo <= x /\ x <= hi

\* utf8.DecodeRune(p): <<rune, width>>.  An invalid or short encoding
\* decodes to <<RuneError, 1>>.
DecodeRune(p) ==
  LET n  == Len(p)
      p0 == p[1]
      size == IF p0 < 128 THEN 1
              ELSE IF InRange(p0, 194, 223) THEN 2
              ELSE IF InRange(p0, 224, 239) THEN 3
              ELSE IF InRange(p0, 240, 244) THEN 4
              ELSE 0
      lo == IF p0 = 224 THEN 160 ELSE IF p0 = 240 THEN 144 ELSE 128
      hi == IF p0 = 237 THEN 159 ELSE IF p0 = 244 THEN 143 ELSE 191
      bad == <<RuneError, 1>>
  IN  IF n < 1 THEN <<RuneError, 0>>
      ELSE IF size = 1 THEN <<p0, 1>>
      ELSE IF size = 0 \/ n < size THEN bad
      ELSE IF ~InRange(p[2], lo, hi) THEN bad
      ELSE IF size = 2 THEN <<(p0 % 32) * 64 + (p[2] % 64), 2>>
      ELSE IF ~InRange(p[3], 128, 191) THEN bad
      ELSE IF size = 3
           THEN <<(p0 % 16) * 4096 + (p[2] % 64) * 64 + (p[3] % 64), 3>>
      ELSE IF ~InRange(p[4], 128, 191) THEN bad
      ELSE <<(p0 % 8) * 262144 + (p[2] % 64) * 4096 + (p[3] % 64) * 64
             + (p[4] % 64), 4>>

\* string(ch): the UTF-8 encoding of a rune; a rune that is no valid code
\* point encodes as RuneError (EF BF BD).
EncodeRune(c) ==
  LET rr == IF c < 0 \/ c > MaxRune \/ InRange(c, 55296, 57343)
            THEN RuneError ELSE c
  IN  IF rr < 128 THEN <<rr>>
      ELSE IF rr < 2048 THEN <<192 + (rr \div 64), 128 + (rr % 64)>>
      ELSE IF rr < 65536
           THEN <<224 + (rr \div 4096), 128 + ((rr \div 64) % 64), 128 + (rr % 64)>>
      ELSE <<240 + (rr \div 262144), 128 + ((rr \div 4096) % 64),
             128 + ((rr \div 64) % 64), 128 + (rr % 64)>>

\* The ranges <<lo, hi>> of the runes from U+0080 on that unicode.IsLetter
\* accepts (the categories Lu, Ll, Lt, Lm and Lo of Unicode 15.0.0, the
\* table unicode.Letter).
LetterRanges ==
  << <<170, 170>>, <<181, 181>>, <<186, 186>>, <<192, 214>>, <<216, 246>>,
    <<248, 705>>, <<710, 721>>, <<736, 740>>, <<748, 748>>, <<750, 750>>,
    <<880, 884>>, <<886, 887>>, <<890, 893>>, <<895, 895>>, <<902, 902>>,
    <<904, 906>>, <<908, 908>>, <<910, 929>>, <<931, 1013>>, <<1015, 1153>>,
    <<1162, 1327>>, <<1329, 1366>>, <<1369, 1369>>, <<1376, 1416>>,
    <<1488, 1514>>, <<1519, 1522>>, <<1568, 1610>>, <<1646, 1647>>,
    <<1649, 1747>>, <<1749, 1749>>, <<1765, 1766>>, <<1774, 1775>>,
    <<1786, 1788>>, <<1791, 1791>>, <<1808, 1808>>, <<1810, 1839>>,
    <<1869, 1957>>, <<1969, 1969>>, <<1994, 2026>>, <<2036, 2037>>,
    <<2042, 2042>>, <<2048, 2069>>, <<2074, 2074>>, <<2084, 2084>>,
    <<2088, 2088>>, <<2112, 2136>>, <<2144, 2154>>, <<2160, 2183>>,
    <<2185, 2190>>, <<2208, 2249>>, <<2308, 2361>>, <<2365, 2365>>,
    <<2384, 2384>>, <<2392, 2401>>, <<2417, 2432>>, <<2437, 2444>>,
    <<2447, 2448>>, <<2451, 2472>>, <<2474, 2480>>, <<2482, 2482>>,
    <<2486, 2489>>, <<2493, 2493>>, <<2510, 2510>>, <<2524, 2525>>,
    <<2527, 2529>>, <<2544, 2545>>, <<2556, 2556>>, <<2565, 2570>>,
    <<2575, 2576>>, <<2579, 2600>>, <<2602, 2608>>, <<2610, 2611>>,
    <<2613, 2614>>, <<2616, 2617>>, <<2649, 2652>>, <<2654, 2654>>,
    <<2674, 2676>>, <<2693, 2701>>, <<2703, 2705>>, <<2707, 2728>>,
    <<2730, 2736>>, <<2738, 2739>>, <<2741, 2745>>, <<2749, 2749>>,
    <<2768, 2768>>, <<2784, 2785>>, <<2809, 2809>>, <<2821, 2828>>,
    <<2831, 2832>>, <<2835, 2856>>, <<2858, 2864>>, <<2866, 2867>>,
    <<2869, 2873>>, <<2877, 2877>>, <<2908, 2909>>, <<2911, 2913>>,
    <<2929, 2929>>, <<2947, 2947>>, <<2949, 2954>>, <<2958, 2960>>,
    <<2962, 2965>>, <<2969, 2970>>, <<2972, 2972>>, <<2974, 2975>>,
    <<2979, 2980>>, <<2984, 2986>>, <<2990, 3001>>, <<3024, 3024>>,
    <<3077, 3084>>, <<3086, 3088>>, <<3090, 3112>>, <<3114, 3129>>,
    <<3133, 3133>>, <<3160, 3162>>, <<3165, 3165>>, <<3168, 3169>>,
    <<3200, 3200>>, <<3205, 3212>>, <<3214, 3216>>, <<3218, 3240>>,
    <<3242, 3251>>, <<3253, 3257>>, <<3261, 3261>>, <<3293, 3294>>,
    <<3296, 3297>>, <<3313, 3314>>, <<3332, 3340>>, <<3342, 3344>>,
    <<3346, 3386>>, <<3389, 3389>>, <<3406, 3406>>, <<3412, 3414>>,
    <<3423, 3425>>, <<3450, 3455>>, <<3461, 3478>>, <<3482, 3505>>,
    <<3507, 3515>>, <<3517, 3517>>, <<3520, 3526>>, <<3585, 3632>>,
    <<3634, 3635>>, <<3648, 3654>>, <<3713, 3714>>, <<3716, 3716>>,
    <<3718, 3722>>, <<3724, 3747>>, <<3749, 3749>>, <<3751, 3760>>,
    <<3762, 3763>>, <<3773, 3773>>, <<3776, 3780>>, <<3782, 3782>>,
    <<3804, 3807>>, <<3840, 3840>>, <<3904, 3911>>, <<3913, 3948>>,
    <<3976, 3980>>, <<4096, 4138>>, <<4159, 4159>>, <<4176, 4181>>,
    <<4186, 4189>>, <<4193, 4193>>, <<4197, 4198>>, <<4206, 4208>>,
    <<4213, 4225>>, <<4238, 4238>>, <<4256, 4293>>, <<4295, 4295>>,
    <<4301, 4301>>, <<4304, 4346>>, <<4348, 4680>>, <<4682, 4685>>,
    <<4688, 4694>>, <<4696, 4696>>, <<4698, 4701>>, <<4704, 4744>>,
    <<4746, 4749>>, <<4752, 4784>>, <<4786, 4789>>, <<4792, 4798>>,
    <<4800, 4800>>, <<4802, 4805>>, <<4808, 4822>>, <<4824, 4880>>,
    <<4882, 4885>>, <<4888, 4954>>, <<4992, 5007>>, <<5024, 5109>>,
    <<5112, 5117>>, <<5121, 5740>>, <<5743, 5759>>, <<5761, 5786>>,
    <<5792, 5866>>, <<5873, 5880>>, <<5888, 5905>>, <<5919, 5937>>,
    <<5952, 5969>>, <<5984, 5996>>, <<5998, 6000>>, <<6016, 6067>>,
    <<6103, 6103>>, <<6108, 6108>>, <<6176, 6264>>, <<6272, 6276>>,
    <<6279, 6312>>, <<6314, 6314>>, <<6320, 6389>>, <<6400, 6430>>,
    <<6480, 6509>>, <<6512, 6516>>, <<6528, 6571>>, <<6576, 6601>>,
    <<6656, 6678>>, <<6688, 6740>>, <<6823, 6823>>, <<6917, 6963>>,
    <<6981, 6988>>, <<7043, 7072>>, <<7086, 7087>>, <<7098, 7141>>,
    <<7168, 7203>>, <<7245, 7247>>, <<7258, 7293>>, <<7296, 7304>>,
    <<7312, 7354>>, <<7357, 7359>>, <<7401, 7404>>, <<7406, 7411>>,
    <<7413, 7414>>, <<7418, 7418>>, <<7424, 7615>>, <<7680, 7957>>,
    <<7960, 7965>>, <<7968, 8005>>, <<8008, 8013>>, <<8016, 8023>>,
    <<8025, 8025>>, <<8027, 8027>>, <<8029, 8029>>, <<8031, 8061>>,
    <<8064, 8116>>, <<8118, 8124>>, <<8126, 8126>>, <<8130, 8132>>,
    <<8134, 8140>>, <<8144, 8147>>, <<8150, 8155>>, <<8160, 8172>>,
    <<8178, 8180>>, <<8182, 8188>>, <<8305, 8305>>, <<8319, 8319>>,
    <<8336, 8348>>, <<8450, 8450>>, <<8455, 8455>>, <<8458, 8467>>,
    <<8469, 8469>>, <<8473, 8477>>, <<8484, 8484>>, <<8486, 8486>>,
    <<8488, 8488>>, <<8490, 8493>>, <<8495, 8505>>, <<8508, 8511>>,
    <<8517, 8521>>, <<8526, 8526>>, <<8579, 8580>>, <<11264, 11492>>,
    <<11499, 11502>>, <<11506, 11507>>, <<11520, 11557>>, <<11559, 11559>>,
    <<11565, 11565>>, <<11568, 11623>>, <<11631, 11631>>, <<11648, 11670>>,
    <<11680, 11686>>, <<11688, 11694>>, <<11696, 11702>>, <<11704, 11710>>,
    <<11712, 11718>>, <<11720, 11726>>, <<11728, 11734>>, <<11736, 11742>>,
    <<11823, 11823>>, <<12293, 12294>>, <<12337, 12341>>, <<12347, 12348>>,
    <<12353, 12438>>, <<12445, 12447>>, <<12449, 12538>>, <<12540, 12543>>,
    <<12549, 12591>>, <<12593, 12686>>, <<12704, 12735>>, <<12784, 12799>>,
    <<13312, 19903>>, <<19968, 42124>>, <<42192, 42237>>, <<42240, 42508>>,
    <<42512, 42527>>, <<42538, 42539>>, <<42560, 42606>>, <<42623, 42653>>,
    <<42656, 42725>>, <<42775, 42783>>, <<42786, 42888>>, <<42891, 42954>>,
    <<42960, 42961>>, <<42963, 42963>>, <<42965, 42969>>, <<42994, 43009>>,
    <<43011, 43013>>, <<43015, 43018>>, <<43020, 43042>>, <<43072, 43123>>,
    <<43138, 43187>>, <<43250, 43255>>, <<43259, 43259>>, <<43261, 43262>>,
    <<43274, 43301>>, <<43312, 43334>>, <<43360, 43388>>, <<43396, 43442>>,
    <<43471, 43471>>, <<43488, 43492>>, <<43494, 43503>>, <<43514, 43518>>,
    <<43520, 43560>>, <<43584, 43586>>, <<43588, 43595>>, <<43616, 43638>>,
    <<43642, 43642>>, <<43646, 43695>>, <<43697, 43697>>, <<43701, 43702>>,
    <<43705, 43709>>, <<43712, 43712>>, <<43714, 43714>>, <<43739, 43741>>,
    <<43744, 43754>>, <<43762, 43764>>, <<43777, 43782>>, <<43785, 43790>>,
    <<43793, 43798>>, <<43808, 43814>>, <<43816, 43822>>, <<43824, 43866>>,
    <<43868, 43881>>, <<43888, 44002>>, <<44032, 55203>>, <<55216, 55238>>,
    <<55243, 55291>>, <<63744, 64109>>, <<64112, 64217>>, <<64256, 64262>>,
    <<64275, 64279>>, <<64285, 64285>>, <<64287, 64296>>, <<64298, 64310>>,
    <<64312, 64316>>, <<64318, 64318>>, <<64320, 64321>>, <<64323, 64324>>,
    <<64326, 64433>>, <<64467, 64829>>, <<64848, 64911>>, <<64914, 64967>>,
    <<65008, 65019>>, <<65136, 65140>>, <<65142, 65276>>, <<65313, 65338>>,
    <<65345, 65370>>, <<65382, 65470>>, <<65474, 65479>>, <<65482, 65487>>,
    <<65490, 65495>>, <<65498, 65500>>, <<65536, 65547>>, <<65549, 65574>>,
    <<65576, 65594>>, <<65596, 65597>>, <<65599, 65613>>, <<65616, 65629>>,
    <<65664, 65786>>, <<66176, 66204>>, <<66208, 66256>>, <<66304, 66335>>,
    <<66349, 66368>>, <<66370, 66377>>, <<66384, 66421>>, <<66432, 66461>>,
    <<66464, 66499>>, <<66504, 66511>>, <<66560, 66717>>, <<66736, 66771>>,
    <<66776, 66811>>, <<66816, 66855>>, <<66864, 66915>>, <<66928, 66938>>,
    <<66940, 66954>>, <<66956, 66962>>, <<66964, 66965>>, <<66967, 66977>>,
    <<66979, 66993>>, <<66995, 67001>>, <<67003, 67004>>, <<67072, 67382>>,
    <<67392, 67413>>, <<67424, 67431>>, <<67456, 67461>>, <<67463, 67504>>,
    <<67506, 67514>>, <<67584, 67589>>, <<67592, 67592>>, <<67594, 67637>>,
    <<67639, 67640>>, <<67644, 67644>>, <<67647, 67669>>, <<67680, 67702>>,
    <<67712, 67742>>, <<67808, 67826>>, <<67828, 67829>>, <<67840, 67861>>,
    <<67872, 67897>>, <<67968, 68023>>, <<68030, 68031>>, <<68096, 68096>>,
    <<68112, 68115>>, <<68117, 68119>>, <<68121, 68149>>, <<68192, 68220>>,
    <<68224, 68252>>, <<68288, 68295>>, <<68297, 68324>>, <<68352, 68405>>,
    <<68416, 68437>>, <<68448, 68466>>, <<68480, 68497>>, <<68608, 68680>>,
    <<68736, 68786>>, <<68800, 68850>>, <<68864, 68899>>, <<69248, 69289>>,
    <<69296, 69297>>, <<69376, 69404>>, <<69415, 69415>>, <<69424, 69445>>,
    <<69488, 69505>>, <<69552, 69572>>, <<69600, 69622>>, <<69635, 69687>>,
    <<69745, 69746>>, <<69749, 69749>>, <<69763, 69807>>, <<69840, 69864>>,
    <<69891, 69926>>, <<69956, 69956>>, <<69959, 69959>>, <<69968, 70002>>,
    <<70006, 70006>>, <<70019, 70066>>, <<70081, 70084>>, <<70106, 70106>>,
    <<70108, 70108>>, <<70144, 70161>>, <<70163, 70187>>, <<70207, 70208>>,
    <<70272, 70278>>, <<70280, 70280>>, <<70282, 70285>>, <<70287, 70301>>,
    <<70303, 70312>>, <<70320, 70366>>, <<70405, 70412>>, <<70415, 70416>>,
    <<70419, 70440>>, <<70442, 70448>>, <<70450, 70451>>, <<70453, 70457>>,
    <<70461, 70461>>, <<70480, 70480>>, <<70493, 70497>>, <<70656, 70708>>,
    <<70727, 70730>>, <<70751, 70753>>, <<70784, 70831>>, <<70852, 70853>>,
    <<70855, 70855>>, <<71040, 71086>>, <<71128, 71131>>, <<71168, 71215>>,
    <<71236, 71236>>, <<71296, 71338>>, <<71352, 71352>>, <<71424, 71450>>,
    <<71488, 71494>>, <<71680, 71723>>, <<71840, 71903>>, <<71935, 71942>>,
    <<71945, 71945>>, <<71948, 71955>>, <<71957, 71958>>, <<71960, 71983>>,
    <<71999, 71999>>, <<72001, 72001>>, <<72096, 72103>>, <<72106, 72144>>,
    <<72161, 72161>>, <<72163, 72163>>, <<72192, 72192>>, <<72203, 72242>>,
    <<72250, 72250>>, <<72272, 72272>>, <<72284, 72329>>, <<72349, 72349>>,
    <<72368, 72440>>, <<72704, 72712>>, <<72714, 72750>>, <<72768, 72768>>,
    <<72818, 72847>>, <<72960, 72966>>, <<72968, 72969>>, <<72971, 73008>>,
    <<73030, 73030>>, <<73056, 73061>>, <<73063, 73064>>, <<73066, 73097>>,
    <<73112, 73112>>, <<73440, 73458>>, <<73474, 73474>>, <<73476, 73488>>,
    <<73490, 73523>>, <<73648, 73648>>, <<73728, 74649>>, <<74880, 75075>>,
    <<77712, 77808>>, <<77824, 78895>>, <<78913, 78918>>, <<82944, 83526>>,
    <<92160, 92728>>, <<92736, 92766>>, <<92784, 92862>>, <<92880, 92909>>,
    <<92928, 92975>>, <<92992, 92995>>, <<93027, 93047>>, <<93053, 93071>>,
    <<93760, 93823>>, <<93952, 94026>>, <<94032, 94032>>, <<94099, 94111>>,
    <<94176, 94177>>, <<94179, 94179>>, <<94208, 100343>>, <<100352, 101589>>,
    <<101632, 101640>>, <<110576, 110579>>, <<110581, 110587>>,
    <<110589, 110590>>, <<110592, 110882>>, <<110898, 110898>>,
    <<110928, 110930>>, <<110933, 110933>>, <<110948, 110951>>,
    <<110960, 111355>>, <<113664, 113770>>, <<113776, 113788>>,
    <<113792, 113800>>, <<113808, 113817>>, <<119808, 119892>>,
    <<119894, 119964>>, <<119966, 119967>>, <<119970, 119970>>,
    <<119973, 119974>>, <<119977, 119980>>, <<119982, 119993>>,
    <<119995, 119995>>, <<119997, 120003>>, <<120005, 120069>>,
    <<120071, 120074>>, <<120077, 120084>>, <<120086, 120092>>,
    <<120094, 120121>>, <<120123, 120126>>, <<120128, 120132>>,
    <<120134, 120134>>, <<120138, 120144>>, <<120146, 120485>>,
    <<120488, 120512>>, <<120514, 120538>>, <<120540, 120570>>,
    <<120572, 120596>>, <<120598, 120628>>, <<120630, 120654>>,
    <<120656, 120686>>, <<120688, 120712>>, <<120714, 120744>>,
    <<120746, 120770>>, <<120772, 120779>>, <<122624, 122654>>,
    <<122661, 122666>>, <<122928, 122989>>, <<123136, 123180>>,
    <<123191, 123197>>, <<123214, 123214>>, <<123536, 123565>>,
    <<123584, 123627>>, <<124112, 124139>>, <<124896, 124902>>,
    <<124904, 124907>>, <<124909, 124910>>, <<124912, 124926>>,
    <<124928, 125124>>, <<125184, 125251>>, <<125259, 125259>>,
    <<126464, 126467>>, <<126469, 126495>>, <<126497, 126498>>,
    <<126500, 126500>>, <<126503, 126503>>, <<126505, 126514>>,
    <<126516, 126519>>, <<126521, 126521>>, <<126523, 126523>>,
    <<126530, 126530>>, <<126535, 126535>>, <<126537, 126537>>,
    <<126539, 126539>>, <<126541, 126543>>, <<126545, 126546>>,
    <<126548, 126548>>, <<126551, 126551>>, <<126553, 126553>>,
    <<126555, 126555>>, <<126557, 126557>>, <<126559, 126559>>,
    <<126561, 126562>>, <<126564, 126564>>, <<126567, 126570>>,
    <<126572, 126578>>, <<126580, 126583>>, <<126585, 126588>>,
    <<126590, 126590>>, <<126592, 126601>>, <<126603, 126619>>,
    <<126625, 126627>>, <<126629, 126633>>, <<126635, 126651>>,
    <<131072, 173791>>, <<173824, 177977>>, <<177984, 178205>>,
    <<178208, 183969>>, <<183984, 191456>>, <<194560, 195101>>,
    <<196608, 201546>>, <<201552, 205743>>>>

\* The ranges of the runes from U+0080 on that unicode.IsDigit accepts (the
\* category Nd of Unicode 15.0.0, the table unicode.Digit).
DigitRanges ==
  << <<1632, 1641>>, <<1776, 1785>>, <<1984, 1993>>, <<2406, 2415>>,
    <<2534, 2543>>, <<2662, 2671>>, <<2790, 2799>>, <<2918, 2927>>,
    <<3046, 3055>>, <<3174, 3183>>, <<3302, 3311>>, <<3430, 3439>>,
    <<3558, 3567>>, <<3664, 3673>>, <<3792, 3801>>, <<3872, 3881>>,
    <<4160, 4169>>, <<4240, 4249>>, <<6112, 6121>>, <<6160, 6169>>,
    <<6470, 6479>>, <<6608, 6617>>, <<6784, 6793>>, <<6800, 6809>>,
    <<6992, 7001>>, <<7088, 7097>>, <<7232, 7241>>, <<7248, 7257>>,
    <<42528, 42537>>, <<43216, 43225>>, <<43264, 43273>>, <<43472, 43481>>,
    <<43504, 43513>>, <<43600, 43609>>, <<44016, 44025>>, <<65296, 65305>>,
    <<66720, 66729>>, <<68912, 68921>>, <<69734, 69743>>, <<69872, 69881>>,
    <<69942, 69951>>, <<70096, 70105>>, <<70384, 70393>>, <<70736, 70745>>,
    <<70864, 70873>>, <<71248, 71257>>, <<71360, 71369>>, <<71472, 71481>>,
    <<71904, 71913>>, <<72016, 72025>>, <<72784, 72793>>, <<73040, 73049>>,
    <<73120, 73129>>, <<73552, 73561>>, <<92768, 92777>>, <<92864, 92873>>,
    <<93008, 93017>>, <<120782, 120831>>, <<123200, 123209>>,
    <<123632, 123641>>, <<124144, 124153>>, <<125264, 125273>>,
    <<130032, 130041>>>>

\* The binary search of unicode.Is in a table of ranges: whether c lies in
\* one of the ranges with the indexes lo + 1 .. hi.
RECURSIVE inRanges(_, _, _, _)
inRanges(ranges, c, lo, hi) ==
  IF lo >= hi THEN FALSE
  ELSE IF c < ranges[lo + (hi - lo) \div 2 + 1][1]
  THEN inRanges(ranges, c, lo, lo + (hi - lo) \div 2)
  ELSE IF c > ranges[lo + (hi - lo) \div 2 + 1][2]
  THEN inRanges(ranges, c, lo + (hi - lo) \div 2 + 1, hi)
  ELSE TRUE

\* unicode.IsLetter on the non-ASCII runes.
UnicodeIsLetter(c) == inRanges(LetterRanges, c, 0, Len(LetterRanges))

\* unicode.IsDigit on the non-ASCII runes.
UnicodeIsDigit(c) == inRanges(DigitRanges, c, 0, Len(DigitRanges))

-----------------------------------------------------------------------------
\* token.File and token.Position (package token).

\* The File that FileSet.AddFile(name, base, size) creates: its line table
\* holds line 0 and it has no alternate-position infos.
NewFile(name, base, size) ==
  [name |-> name, base |-> base, size |-> size, lines |-> <<0>>,
   infos |-> <<>>]

\* File.AddLine(offset): appended only when it is beyond the last line start
\* and inside the file.  TestScan expects the EOF of a source that ends with
\* a newline on the line of that newline (line = newlineCount, column 2): the
\* line start at offset = size is not recorded.
AddLine(file, offset) ==
  IF (Len(file.lines) = 0 \/ file.lines[Len(file.lines)] < offset)
     /\ offset < file.size
  THEN [file EXCEPT !.lines = Append(@, offset)]
  ELSE file

\* File.AddLineInfo(offset, filename, line): an alternate position for the
\* text from offset on, appended under the rule of AddLine.
AddLineInfo(file, offset, filename, line) ==
  IF (Len(file.infos) = 0 \/ file.infos[Len(file.infos)].Offset < offset)
     /\ offset < file.size
  THEN [file EXCEPT !.infos = Append(@, [Offset |-> offset,
                                         Filename |-> filename,
                                         Line |-> line])]
  ELSE file

\* File.Pos(offset) and File.Offset(pos).
Pos(file, offset) == file.base + offset

Offset(file, p) == p - file.base

\* The index of the last element of an ascending sequence of offsets that is
\* <= x (0 when there is none): the search of the line table and of the
\* infos.
searchInts(a, x) == Cardinality({k \in 1..Len(a) : a[k] <= x})

searchLineInfos(a, x) == Cardinality({k \in 1..Len(a) : a[k].Offset <= x})

\* The position of offset o under the alternate position alt: its file name,
\* and the line counted from alt.Line at the line alt.Offset lies on.
altPosition(file, o, alt) ==
  [Filename |-> alt.Filename, Offset |-> o,
   Line |-> searchInts(file.lines, o) + alt.Line
              - searchInts(file.lines, alt.Offset),
   Column |-> o - file.lines[searchInts(file.lines, o)] + 1]

\* The position of the local offset o: the file's name, the 1-based line
\* whose start is the largest one <= o, and the 1-based column in it; an
\* alternate position at or before o replaces the file name and the line.
unpack(file, o) ==
  IF searchLineInfos(file.infos, o) > 0
  THEN altPosition(file, o, file.infos[searchLineInfos(file.infos, o)])
  ELSE [Filename |-> file.name, Offset |-> o,
        Line |-> searchInts(file.lines, o),
        Column |-> o - file.lines[searchInts(file.lines, o)] + 1]

\* File.Position(p): the offset in the file (checkError compares it with the
\* local offset of the error), the file name, the line and the column.
Position(file, p) == unpack(file, Offset(file, p))

-----------------------------------------------------------------------------
\* token.FileSet (package token) and its serialised form.  A FileSet value fs
\* holds base, the files in the order they were added, and last: the index in
\* files of the cached File, 0 when the cache is empty.

NoPos == 0

\* The Position of NoPos and of a Pos no file holds.
invalidPosition == [Filename |-> "", Offset |-> 0, Line |-> 0, Column |-> 0]

\* NewFileSet().
NewFileSet == [base |-> 1, files |-> <<>>, last |-> 0]

\* FileSet.AddFile(name, base, size) for a base and a size it accepts (the
\* caller's guard is AddFileAccepts): the next base leaves room for the
\* position just past the file's end.
AddFileAccepts(fs, base, size) == base >= fs.base /\ size >= 0

AddFile(fs, name, base, size) ==
  [fs EXCEPT !.base = base + size + 1,
             !.files = Append(@, NewFile(name, base, size))]

\* The index of the rightmost file whose base is <= p (0 when there is none).
searchFiles(files, p) == Cardinality({k \in 1..Len(files) : files[k].base <= p})

\* p lies in files[i].
holds(files, i, p) ==
  i > 0 /\ files[i].base <= p /\ p <= files[i].base + files[i].size

\* FileSet.file(p): the index of the File that holds p, the cached one first
\* (0 when no file holds p).
fileIndex(fs, p) ==
  IF holds(fs.files, fs.last, p) THEN fs.last
  ELSE IF holds(fs.files, searchFiles(fs.files, p), p)
  THEN searchFiles(fs.files, p)
  ELSE 0

\* FileSet.Position(p): the value returned.
FileSetPosition(fs, p) ==
  IF p = NoPos \/ fileIndex(fs, p) = 0 THEN invalidPosition
  ELSE Position(fs.files[fileIndex(fs, p)], p)

\* FileSet.Position(p): the FileSet after the call, which caches the File it
\* has found.
FileSetResolved(fs, p) ==
  IF p = NoPos \/ fileIndex(fs, p) = 0 THEN fs
  ELSE [fs EXCEPT !.last = fileIndex(fs, p)]

\* serializedFile of a File, and the File of a serializedFile.
serializedFile(f) ==
  [Name |-> f.name, Base |-> f.base, Size |-> f.size, Lines |-> f.lines,
   Infos |-> f.infos]

restoredFile(f) ==
  [name |-> f.Name, base |-> f.Base, size |-> f.Size, lines |-> f.Lines,
   infos |-> f.Infos]

\* FileSet.Write: the serializedFileSet handed to encode.
Written(fs) ==
  [Base |-> fs.base,
   Files |-> [i \in 1..Len(fs.files) |-> serializedFile(fs.files[i])]]

\* FileSet.Read: the FileSet after it, for the error decode returned
\* (decodeFailed) and the serializedFileSet ss it filled in.
Read(fs, decodeFailed, ss) ==
  IF decodeFailed THEN fs
  ELSE [base |-> ss.Base,
        files |-> [i \in 1..Len(ss.Files) |-> restoredFile(ss.Files[i])],
        last |-> 0]

-----------------------------------------------------------------------------
\* ErrorList (package scanner): a sequence of entries [Pos, Msg].

\* The strings the lists below are made of, in ascending order: file names
\* and messages are compared as strings.
stringOrder == <<"", "a.zo", "b.zo", "msg1", "msg2">>

stringRank(str) == CHOOSE i \in 1..Len(stringOrder) : stringOrder[i] = str

\* ErrorList.Add(pos, msg).
Add(p, pos, msg) == Append(p, [Pos |-> pos, Msg |-> msg])

\* The order of Sort: file name, then line, then column, then message.
Less(e, f) ==
  IF e.Pos.Filename # f.Pos.Filename
  THEN stringRank(e.Pos.Filename) < stringRank(f.Pos.Filename)
  ELSE IF e.Pos.Line # f.Pos.Line THEN e.Pos.Line < f.Pos.Line
  ELSE IF e.Pos.Column # f.Pos.Column THEN e.Pos.Column < f.Pos.Column
  ELSE stringRank(e.Msg) < stringRank(f.Msg)

\* A list without its last entry.
Front(p) == SubSeq(p, 1, Len(p) - 1)

\* The sorted list p with e put behind the entries that are not above it.
RECURSIVE insertSorted(_, _)
insertSorted(p, e) ==
  IF p = <<>> THEN <<e>>
  ELSE IF Less(e, p[Len(p)])
  THEN Append(insertSorted(Front(p), e), p[Len(p)])
  ELSE Append(p, e)

\* ErrorList.Sort: a stable sort.
RECURSIVE Sort(_)
Sort(p) ==
  IF p = <<>> THEN p
  ELSE insertSorted(Sort(Front(p)), p[Len(p)])

\* Mutant of the loop of RemoveMultiples: an entry on the file and line of
\* the one kept last takes its place.
RECURSIVE removeLoop(_, _, _, _)
removeLoop_keepsLatest(p, i, last, out) ==
  IF i > Len(p) THEN out
  ELSE IF p[i].Pos.Filename # last.Filename \/ p[i].Pos.Line # last.Line
  THEN removeLoop(p, i + 1, p[i].Pos, Append(out, p[i]))
  ELSE removeLoop(p, i + 1, last, Append(Front(out), p[i]))

\* The loop of RemoveMultiples from entry i on: last is the position of the
\* entry kept last and out the entries kept.
removeLoop(p, i, last, out) ==
  IF i > Len(p) THEN out
  ELSE IF p[i].Pos.Filename # last.Filename \/ p[i].Pos.Line # last.Line
  THEN removeLoop(p, i + 1, p[i].Pos, Append(out, p[i]))
  ELSE removeLoop(p, i + 1, last, out)

\* ErrorList.RemoveMultiples: of the entries of a file and a line that follow
\* one another, the first is kept.
RemoveMultiples(p) ==
  IF p = <<>> THEN p
  ELSE removeLoop(p, 2, p[1].Pos, <<p[1]>>)

-----------------------------------------------------------------------------
\* The Scanner.  A scanner value m holds the Scanner's fields (src, err, ch,
\* offset, rdOffset, ErrorCount), the File it points to (file) and the log of
\* the calls made to the installed error handler (calls).  err is TRUE when a
\* handler is installed and FALSE when it is nil.
\*
\* A statement sequence of the source is a chain of operators, each taking
\* the scanner the statements before it have produced.

\* One call of the error handler: the resolved position and the message; arg
\* is the rune a formatted message prints (noArg when the message has none).
noArg == eof - 1

Call(m, offs, msg, arg) ==
  [pos |-> Position(m.file, Pos(m.file, offs)), msg |-> msg, arg |-> arg]

\* Mutants of Scanner.error: one that returns right after calling the
\* handler, and one that counts only inside the handler branch.
errorf_returnsAfterHandler(m, offs, msg, arg) ==
  IF m.err THEN [m EXCEPT !.calls = Append(@, Call(m, offs, msg, arg))]
  ELSE [m EXCEPT !.ErrorCount = @ + 1]

errorf_countsInsideBranch(m, offs, msg, arg) ==
  IF m.err
  THEN [m EXCEPT !.calls = Append(@, Call(m, offs, msg, arg)),
                 !.ErrorCount = @ + 1]
  ELSE m

\* Scanner.error with a formatted message.
errorf(m, offs, msg, arg) ==
  [m EXCEPT !.calls = IF m.err THEN Append(@, Call(m, offs, msg, arg)) ELSE @,
            !.ErrorCount = @ + 1]

\* Scanner.error.
error(m, offs, msg) == errorf(m, offs, msg, noArg)

\* Mutant of the head of next: the line is added when the byte about to be
\* read is a newline, at that byte's offset.
nextOffset_lineAtNewline(m, offs) ==
  [m EXCEPT !.offset = offs,
            !.file = IF offs < Len(m.src) /\ m.src[offs + 1] = chr.nl
                     THEN AddLine(@, offs) ELSE @]

\* The head of both branches of next: s.offset is set, and a line is added
\* if the character left behind is a newline.
nextOffset(m, offs) ==
  [m EXCEPT !.offset = offs,
            !.file = IF m.ch = chr.nl THEN AddLine(@, offs) ELSE @]

\* r, w of next: the byte itself, or the decoded rune and its width.
nextDecode(m) ==
  IF m.src[m.rdOffset + 1] >= RuneSelf
  THEN DecodeRune(Slice(m.src, m.rdOffset, Len(m.src)))
  ELSE <<m.src[m.rdOffset + 1], 1>>

\* The switch of next on the byte b read and its decoding d.
nextCheck(m, b, d) ==
  IF b = 0 THEN error(m, m.offset, "illegal character NUL")
  ELSE IF b >= RuneSelf /\ d[1] = RuneError /\ d[2] = 1
  THEN error(m, m.offset, "illegal UTF-8 encoding")
  ELSE IF b >= RuneSelf /\ d[1] = bom /\ m.offset > 0
  THEN error(m, m.offset, "illegal byte order mark")
  ELSE m

nextRune(m, b, d) ==
  [nextCheck(m, b, d) EXCEPT !.rdOffset = @ + d[2], !.ch = d[1]]

\* Mutant of Scanner.next: at the end of the source the offset is advanced
\* instead of being set to len(src).
next_advancesAtEof(m) ==
  IF m.rdOffset < Len(m.src)
  THEN nextRune(nextOffset(m, m.rdOffset), m.src[m.rdOffset + 1],
                nextDecode(m))
  ELSE [m EXCEPT !.offset = m.offset + 1, !.ch = eof]

\* Mutant of Scanner.next: at the end of the source only ch is set.
next_keepsOffsetAtEof(m) ==
  IF m.rdOffset < Len(m.src)
  THEN nextRune(nextOffset(m, m.rdOffset), m.src[m.rdOffset + 1],
                nextDecode(m))
  ELSE [m EXCEPT !.ch = eof]

\* Scanner.next: reads the next character into ch.
next(m) ==
  IF m.rdOffset < Len(m.src)
  THEN nextRune(nextOffset(m, m.rdOffset), m.src[m.rdOffset + 1],
                nextDecode(m))
  ELSE [nextOffset(m, Len(m.src)) EXCEPT !.ch = eof]

\* The end of Init: a byte order mark at the beginning is ignored.
skipBom(m) == IF m.ch = bom THEN next(m) ELSE m

\* Scanner.Init, for a file whose size matches the source (the size check of
\* Init is the guard of the caller).
InitScanner(file, src, err) ==
  skipBom(next([file |-> file, src |-> src, err |-> err, ch |-> chr.sp,
                offset |-> 0, rdOffset |-> 0, ErrorCount |-> 0,
                calls |-> <<>>]))

\* Scanner.scanComment: the single-line loop and the multi-line loop.
RECURSIVE lineCommentLoop(_)
lineCommentLoop(m) ==
  IF m.ch # chr.nl /\ m.ch >= 0 THEN lineCommentLoop(next(m)) ELSE m

\* One round of the multi-line loop: ch is the character before s.next().
RECURSIVE blockCommentLoop(_)
blockCommentStep(ch, m) ==
  IF ch = chr.star /\ m.ch = chr.slash THEN next(m) ELSE blockCommentLoop(m)

blockCommentLoop(m) ==
  IF m.ch >= 0 THEN blockCommentStep(m.ch, next(m)) ELSE m

\* Mutant of scanComment: the '*' of the opening is not passed over before
\* the multi-line loop.
scanComment_keepsStar(m) ==
  IF m.ch = chr.slash THEN lineCommentLoop(next(m))
  ELSE blockCommentLoop(m)

scanComment(m) ==
  IF m.ch = chr.slash THEN lineCommentLoop(next(m))
  ELSE blockCommentLoop(next(m))

isLetter(ch) ==
  \/ chr.a <= ch /\ ch <= chr.z
  \/ chr.A <= ch /\ ch <= chr.Z
  \/ ch = chr.us
  \/ ch >= RuneSelf /\ UnicodeIsLetter(ch)

isDigit(ch) ==
  \/ chr.d0 <= ch /\ ch <= chr.d9
  \/ ch >= RuneSelf /\ UnicodeIsDigit(ch)

\* A scanning function's result: the scanner after it and the literal
\* src[offs:s.offset].
Literal(m, offs) == [m |-> m, lit |-> Slice(m.src, offs, m.offset)]

\* Scanner.scanIdentifier: [m, lit].
RECURSIVE identLoop(_)
identLoop(m) ==
  IF isLetter(m.ch) \/ isDigit(m.ch) THEN identLoop(next(m)) ELSE m

scanIdentifier(m) == Literal(identLoop(m), m.offset)

digitVal(ch) ==
  IF chr.d0 <= ch /\ ch <= chr.d9 THEN ch - chr.d0
  ELSE IF chr.a <= ch /\ ch <= chr.f THEN ch - chr.a + 10
  ELSE IF chr.A <= ch /\ ch <= chr.F THEN ch - chr.A + 10
  ELSE 16

RECURSIVE scanMantissa(_, _)
scanMantissa(m, base) ==
  IF digitVal(m.ch) < base THEN scanMantissa(next(m), base) ELSE m

\* Scanner.scanNumber.  The labels exit, exponent and fraction of the source
\* are the operators numExit, numExponent and numFraction; each result is
\* [m, tok, lit].
numExit(m, tok, offs) ==
  [m |-> m, tok |-> tok, lit |-> Slice(m.src, offs, m.offset)]

\* The sign of an exponent.
numSign(m) == IF m.ch = chr.minus \/ m.ch = chr.plus THEN next(m) ELSE m

numExponent(m, tok, offs) ==
  IF m.ch = chr.e \/ m.ch = chr.E
  THEN numExit(scanMantissa(numSign(next(m)), 10), "FLOAT", offs)
  ELSE numExit(m, tok, offs)

numFraction(m, tok, offs) ==
  IF m.ch = chr.dot
  THEN numExponent(scanMantissa(next(m), 10), "FLOAT", offs)
  ELSE numExponent(m, tok, offs)

\* Mutant of the hexadecimal check: a bare "0x" is taken for a legal number.
numHexCheck_acceptsBarePrefix(m, offs) ==
  IF m.offset - offs < 2 THEN error(m, offs, "illegal hexadecimal number")
  ELSE m

\* The check after the hexadecimal mantissa.
numHexCheck(m, offs) ==
  IF m.offset - offs <= 2 THEN error(m, offs, "illegal hexadecimal number")
  ELSE m

\* Mutant of the end of the octal branch: the illegal octal digits are
\* reported before the look for a fraction or an exponent.
numOctalEnd_reportsEarly(m, illegalOctal, offs) ==
  IF m.ch = chr.dot \/ m.ch = chr.e \/ m.ch = chr.E
  THEN numFraction(IF illegalOctal
                   THEN error(m, offs, "illegal octal number") ELSE m,
                   "INT", offs)
  ELSE numExit(IF illegalOctal
               THEN error(m, offs, "illegal octal number") ELSE m,
               "INT", offs)

\* The end of the octal branch; illegalOctal is the flag the source names
\* seenDecimalPoint.
numOctalEnd(m, illegalOctal, offs) ==
  IF m.ch = chr.dot \/ m.ch = chr.e \/ m.ch = chr.E
  THEN numFraction(m, "INT", offs)
  ELSE numExit(IF illegalOctal
               THEN error(m, offs, "illegal octal number") ELSE m,
               "INT", offs)

\* The octal branch after scanMantissa(8).
numOctal(m, offs) ==
  IF m.ch = chr.d8 \/ m.ch = chr.d9
  THEN numOctalEnd(scanMantissa(m, 10), TRUE, offs)
  ELSE numOctalEnd(m, FALSE, offs)

\* The branch of scanNumber for a literal that starts with '0', after the
\* '0' is consumed.
numZero(m, offs) ==
  IF m.ch = chr.x \/ m.ch = chr.X
  THEN numExit(numHexCheck(scanMantissa(next(m), 16), offs), "INT", offs)
  ELSE numOctal(scanMantissa(m, 8), offs)

\* Mutant of scanNumber: the literal of a number that starts with '.' begins
\* after the point.
scanNumber_dropsPoint(m, seenDecimalPoint) ==
  IF seenDecimalPoint
  THEN numExponent(scanMantissa(m, 10), "FLOAT", m.offset)
  ELSE IF m.ch = chr.d0 THEN numZero(next(m), m.offset)
  ELSE numFraction(scanMantissa(m, 10), "INT", m.offset)

scanNumber(m, seenDecimalPoint) ==
  IF seenDecimalPoint
  THEN numExponent(scanMantissa(m, 10), "FLOAT", m.offset - 1)
  ELSE IF m.ch = chr.d0 THEN numZero(next(m), m.offset)
  ELSE numFraction(scanMantissa(m, 10), "INT", m.offset)

\* A uint32 as its two halves of 16 bits, the value being
\* hi * 65536 + lo (the model's integers end below 2^32), and x < y on
\* such values.
Uint32(n) == [hi |-> n \div 65536, lo |-> n % 65536]

Uint32Less(x, y) == x.hi < y.hi \/ (x.hi = y.hi /\ x.lo < y.lo)

\* x = x*base + d of scanEscape, in uint32 arithmetic.
escapeAccumulate(x, base, d) ==
  [hi |-> (x.hi * base + (x.lo * base + d) \div 65536) % 65536,
   lo |-> (x.lo * base + d) % 65536]

\* Mutant of the report of a character that is no digit of the escape
\* sequence: the character is consumed after the report.
escapeBadDigit_consumes(m) ==
  IF m.ch < 0 THEN error(m, m.offset, "escape sequence not terminated")
  ELSE next(errorf(m, m.offset, "illegal character %#U in escape sequence",
                   m.ch))

\* The report of a character that is no digit of the escape sequence.
escapeBadDigit(m) ==
  IF m.ch < 0 THEN error(m, m.offset, "escape sequence not terminated")
  ELSE errorf(m, m.offset, "illegal character %#U in escape sequence", m.ch)

\* The digit loop of scanEscape: [m, ok, x].
RECURSIVE escapeDigits(_, _, _, _)
escapeDigits(m, n, base, x) ==
  IF n > 0
  THEN IF digitVal(m.ch) >= base
       THEN [m |-> escapeBadDigit(m), ok |-> FALSE, x |-> x]
       ELSE escapeDigits(next(m), n - 1, base,
                         escapeAccumulate(x, base, digitVal(m.ch)))
  ELSE [m |-> m, ok |-> TRUE, x |-> x]

\* The end of scanEscape: the check of the code point the digits r denote.
escapeCheck(r, offs, max) ==
  IF ~r.ok THEN [m |-> r.m, ok |-> FALSE]
  ELSE IF \/ Uint32Less(Uint32(max), r.x)
          \/ (~Uint32Less(r.x, Uint32(55296))
                /\ Uint32Less(r.x, Uint32(57344)))
  THEN [m |-> error(r.m, offs, "escape sequence is invalid Unicode code point"),
        ok |-> FALSE]
  ELSE [m |-> r.m, ok |-> TRUE]

\* The tail of scanEscape: n digits in the base, then the code point check.
escapeValue(m, offs, n, base, max) ==
  escapeCheck(escapeDigits(m, n, base, Uint32(0)), offs, max)

\* Scanner.scanEscape: [m, ok].
scanEscape(m, quote) ==
  IF m.ch \in {chr.a, chr.b, chr.f, chr.n, chr.r, chr.t, chr.v, chr.bs, quote}
  THEN [m |-> next(m), ok |-> TRUE]
  ELSE IF chr.d0 <= m.ch /\ m.ch <= chr.d7
  THEN escapeValue(m, m.offset, 3, 8, 255)
  ELSE IF m.ch = chr.x THEN escapeValue(next(m), m.offset, 2, 16, 255)
  ELSE IF m.ch = chr.u THEN escapeValue(next(m), m.offset, 4, 16, MaxRune)
  ELSE IF m.ch = chr.U THEN escapeValue(next(m), m.offset, 8, 16, MaxRune)
  ELSE [m |-> error(m, m.offset, IF m.ch < 0
                                 THEN "escape sequence not terminated"
                                 ELSE "unknown escape sequence"),
        ok |-> FALSE]

\* Mutant of the loop of scanString: the character the loop stops at is
\* consumed before the unterminated literal is reported.
RECURSIVE stringLoop(_, _, _)
stringLoop_consumesEnd(m, quote, offs) ==
  IF m.ch = chr.nl \/ m.ch < 0
  THEN error(next(m), offs, "string literal not terminated")
  ELSE IF m.ch = quote THEN next(m)
  ELSE IF m.ch = chr.bs
  THEN stringLoop(scanEscape(next(m), quote).m, quote, offs)
  ELSE stringLoop(next(m), quote, offs)

\* The loop of scanString.
stringLoop(m, quote, offs) ==
  IF m.ch = chr.nl \/ m.ch < 0
  THEN error(m, offs, "string literal not terminated")
  ELSE IF m.ch = quote THEN next(m)
  ELSE IF m.ch = chr.bs
  THEN stringLoop(scanEscape(next(m), quote).m, quote, offs)
  ELSE stringLoop(next(m), quote, offs)

\* Scanner.scanString: [m, lit].
scanString(m, quote) ==
  Literal(stringLoop(m, quote, m.offset - 1), m.offset - 1)

RECURSIVE skipWhiteSpace(_)
skipWhiteSpace(m) ==
  IF m.ch \in {chr.sp, chr.tab, chr.nl, chr.cr} THEN skipWhiteSpace(next(m))
  ELSE m

\* The result of Scan: the scanner after the call and the returned triple.
Result(m, pos, tok, lit) == [m |-> m, pos |-> pos, tok |-> tok, lit |-> lit]

\* The result of Scan from the result r of a scanning function.
Token(r, pos, tok) == Result(r.m, pos, tok, r.lit)

\* The identifier case of Scan.
identToken(r, pos) ==
  Token(r, pos, IF r.lit = strTrue \/ r.lit = strFalse THEN "BOOL"
                ELSE "IDENT")

\* The number case of Scan.
numberToken(r, pos) == Token(r, pos, r.tok)

\* The one-character tokens of Scan's switch.
single == [c \in {chr.colon, chr.comma, chr.lparen, chr.rparen, chr.lbrack,
                  chr.rbrack, chr.lbrace, chr.rbrace, chr.plus, chr.minus,
                  chr.star, chr.pct} |->
            CASE c = chr.colon  -> "COLON"
              [] c = chr.comma  -> "COMMA"
              [] c = chr.lparen -> "LPAREN"
              [] c = chr.rparen -> "RPAREN"
              [] c = chr.lbrack -> "LBRACK"
              [] c = chr.rbrack -> "RBRACK"
              [] c = chr.lbrace -> "LBRACE"
              [] c = chr.rbrace -> "RBRACE"
              [] c = chr.plus   -> "ADD"
              [] c = chr.minus  -> "SUB"
              [] c = chr.star   -> "MUL"
              [] c = chr.pct    -> "REM"]

\* The tokens of Scan's switch that look for a '=' after the character: the
\* token with it and the token without it.
double == [c \in {chr.lt, chr.gt, chr.eq, chr.bang} |->
            CASE c = chr.lt   -> <<"LEQ", "LSS">>
              [] c = chr.gt   -> <<"GEQ", "GTR">>
              [] c = chr.eq   -> <<"EQL", "ASSIGN">>
              [] c = chr.bang -> <<"NEQ", "NOT">>]

\* Mutant of the report of an illegal character: it is made at the
\* scanner's offset, which is behind the character.
illegal_reportsAtOffset(m, pos, ch) ==
  errorf(m, m.offset, "illegal character %#U", ch)

\* The report of an illegal character at the token's position.
illegal(m, pos, ch) ==
  errorf(m, Offset(m.file, pos), "illegal character %#U", ch)

\* Mutant of the default case of Scan's inner switch: a byte order mark is
\* reported like any other illegal character.
scanIllegal_reportsBom(m, pos, ch) ==
  Result(illegal(m, pos, ch), pos, "ILLEGAL", EncodeRune(ch))

\* The default case of Scan's inner switch.
\* Mutant of the default case of Scan: the replacement character of an
\* undecodable byte is exempt from the report as the byte order mark is.
scanIllegal_exemptsRuneError(m, pos, ch) ==
  Result(IF ch # bom /\ ch # RuneError THEN illegal(m, pos, ch) ELSE m,
         pos, "ILLEGAL", EncodeRune(ch))

scanIllegal(m, pos, ch) ==
  Result(IF ch # bom THEN illegal(m, pos, ch) ELSE m,
         pos, "ILLEGAL", EncodeRune(ch))

\* The cases '&' and '|' of Scan's inner switch.
scanLogical(m, pos, ch) ==
  IF m.ch = ch
  THEN Result(next(m), pos, IF ch = chr.amp THEN "AND" ELSE "OR", <<>>)
  ELSE Result(illegal(m, pos, ch), pos, "ILLEGAL", EncodeRune(ch))

\* The default branch of Scan's outer switch, after s.next().
scanOther(m, pos, ch) ==
  IF ch = eof THEN Result(m, pos, "EOF", <<>>)
  ELSE IF ch = chr.dq THEN Token(scanString(m, chr.dq), pos, "STRING")
  ELSE IF ch = chr.sq THEN Token(scanString(m, chr.sq), pos, "RAWSTRING")
  ELSE IF ch = chr.dot /\ chr.d0 <= m.ch /\ m.ch <= chr.d9
  THEN numberToken(scanNumber(m, TRUE), pos)
  ELSE IF ch = chr.dot THEN Result(m, pos, "PERIOD", <<>>)
  ELSE IF ch \in DOMAIN single THEN Result(m, pos, single[ch], <<>>)
  ELSE IF ch = chr.slash /\ (m.ch = chr.slash \/ m.ch = chr.star)
  THEN Result(scanComment(m), pos, "COMMENT", <<>>)
  ELSE IF ch = chr.slash THEN Result(m, pos, "QUO", <<>>)
  ELSE IF ch \in DOMAIN double /\ m.ch = chr.eq
  THEN Result(next(m), pos, double[ch][1], <<>>)
  ELSE IF ch \in DOMAIN double THEN Result(m, pos, double[ch][2], <<>>)
  ELSE IF ch = chr.amp \/ ch = chr.bar THEN scanLogical(m, pos, ch)
  ELSE scanIllegal(m, pos, ch)

\* Mutant of Scan's switch: the default branch advances only for the
\* characters whose case looks at the next one or scans on; the others are
\* not consumed.
scanToken_advancesOnLookaheadOnly(m, pos) ==
  IF isLetter(m.ch) THEN identToken(scanIdentifier(m), pos)
  ELSE IF chr.d0 <= m.ch /\ m.ch <= chr.d9
  THEN numberToken(scanNumber(m, FALSE), pos)
  ELSE IF m.ch \in {chr.dq, chr.sq, chr.dot, chr.slash, chr.amp, chr.bar}
                   \cup DOMAIN double \cup DOMAIN single
  THEN scanOther(next(m), pos, m.ch)
  ELSE scanOther(m, pos, m.ch)

\* Scan after skipWhiteSpace: the token's position and the switch on s.ch.
scanToken(m, pos) ==
  IF isLetter(m.ch) THEN identToken(scanIdentifier(m), pos)
  ELSE IF chr.d0 <= m.ch /\ m.ch <= chr.d9
  THEN numberToken(scanNumber(m, FALSE), pos)
  ELSE scanOther(next(m), pos, m.ch)

\* The current token start.
tokenStart(m) == Pos(m.file, m.offset)

\* Scan after skipWhiteSpace.
scanFrom(m) == scanToken(m, tokenStart(m))

\* Mutant of Scan: the position is taken before the white space is skipped.
Scan_positionBeforeWhiteSpace(m) == scanToken(skipWhiteSpace(m), tokenStart(m))

\* Scanner.Scan.
Scan(m) == scanFrom(skipWhiteSpace(m))

-----
\* The state machine.  s is a scanner initialised with an error handler and t
\* a scanner initialised with a nil handler on the same source and a File of
\* the same base and size; ret and tret are what their last Scan call
\* returned, n counting the Scan calls since Init.  Scan is called on both.
\* op names the last call made and its outcome, hist is the sequence of the
\* triples Scan has returned to s since its last Init, and prev is the
\* sequence of the passes that a later Init has ended.  fset is a FileSet,
\* wire the serializedFileSet last encoded by a Write of fset (NoWire before
\* the first), seen the FileSet as the last Write found it when it made its
\* copy under the lock, and list an ErrorList.

\* Bounds: the longest source of each family of sources, the number of Scan
\* calls made beyond one per source byte, the number of times a scanner is
\* initialised again, the last offset a line of a file starts at, and the length of the longest error list.
MaxLen == 4

MaxLitLen == 4

MaxNumLen == 5

MaxStrLen == 5

MaxBomLen == 7

MaxReLen == 3

MaxDigits == 4
MaxComLen == 6
MaxIllLen == 5
ExtraScans == 1

MaxInits == 1

MaxLine == 1

MaxErrs == 3

\* The file bases a scanned File is registered at: the first file of a file
\* set, and a later one.
Bases == {1, 6}

FirstBase == {1}

SeqsUpTo(A, n) == UNION {[1..k -> A] : k \in 0..n}

\* The byte alphabets the sources are drawn from.  239 187 191 (EF BB BF) is
\* the encoding of the byte order mark.
Alphabet == {chr.x, chr.d0, chr.dq, chr.bs, chr.nl, chr.slash, chr.star,
             chr.amp, chr.nul}

LitAlphabet == {chr.d0, chr.d8, chr.x, chr.dot, chr.dq, chr.bs, chr.nl}

NumAlphabet == {chr.d0, chr.d7, chr.d8, chr.x, chr.dot, chr.e}

StrAlphabet == {chr.dq, chr.sq, chr.bs, chr.nl, chr.x, chr.d0}

BomAlphabet == {239, 187, 191, chr.slash}

ReAlphabet == {chr.x, chr.nl, chr.nul, chr.slash, chr.star, chr.dq}

ComAlphabet == {chr.slash, chr.star, chr.nl, chr.nul}

IllAlphabet == {chr.nul, 239, 187, 191, chr.dq, chr.sp}

BomBytes == <<239, 187, 191>>

\* Sources that begin with a quote and a backslash: what follows is one
\* character, or the head of a digit form and up to MaxDigits characters of
\* its base or just outside it, and then the end of the source, the closing
\* quote, a newline, or a letter and the closing quote.
EscSimple ==
  {<<c>> : c \in {chr.a, chr.b, chr.f, chr.n, chr.r, chr.t, chr.v, chr.bs,
                  chr.dq, chr.sq, chr.z}}

EscOctal == SeqsUpTo({chr.d0, chr.d3, chr.d4, chr.d7, chr.d8}, MaxDigits)

EscHexHeads ==
  {<<chr.x>>, <<chr.u>>,
   <<chr.U, chr.d0, chr.d0, chr.d0, chr.d0>>,
   <<chr.U, chr.d0, chr.d0, chr.d1, chr.d0>>,
   <<chr.U, chr.d0, chr.d0, chr.d1, chr.d1>>,
   <<chr.U, chr.f, chr.f, chr.f, chr.f>>}

EscHex ==
  {h \o d : h \in EscHexHeads,
            d \in SeqsUpTo({chr.d0, chr.d8, chr.d, chr.f}, MaxDigits)}

EscTails(quote) == {<<>>, <<quote>>, <<chr.nl>>, <<chr.z, quote>>}

EscSources ==
  {<<quote, chr.bs>> \o body \o tail :
     quote \in {chr.dq, chr.sq},
     body \in EscSimple \cup EscOctal \cup EscHex,
     tail \in EscTails(chr.dq) \cup EscTails(chr.sq)}

NoReturn == [pos |-> 0, tok |-> "NONE", lit |-> <<>>, n |-> 0]

\* The last call: its name, how it ended ("ok", "panic" or "error") and, for
\* Init, the size of the File and the length of the source it was given, for
\* Sort and RemoveMultiples, the list it was called on.
Called(call, out, arg) == [call |-> call, out |-> out, arg |-> arg]

NoWire == [Base |-> 0, Files |-> <<>>]

\* The names of the files of a file set, each registered once, and the positions and messages of the errors of a list.
FileNames == {"a.zo", "b.zo"}

ErrorPositions ==
  {invalidPosition} \cup
  [Filename : FileNames, Offset : {0}, Line : 1..2, Column : 1..2]

Messages == {"msg1", "msg2"}

\* A FileSet that has been used: one file, which the cache holds.
UsedFileSet ==
  FileSetResolved(AddFile(NewFileSet, "b.zo", 1, 1), 1)

\* The parts of the state a specification does not use.
NoScanner ==
  /\ s = InitScanner(NewFile("", 1, 0), <<>>, TRUE)
  /\ t = InitScanner(NewFile("", 1, 0), <<>>, FALSE)
  /\ ret = NoReturn
  /\ tret = NoReturn
  /\ hist = <<>>
  /\ prev = <<>>

\* The goroutines that call into one FileSet: one calls Read, one Write and
\* one AddFile, each again and again.  mutex is the holder of s.mutex (Free
\* when it is unlocked); pc[g] is the statement goroutine g is at and how far
\* the callback it runs there (decode, encode) has come with a call of its
\* own into the FileSet; loc[g] is the local variable ss of g's call; lin is
\* the FileSet that the calls made so far give when each of them runs alone,
\* in the order in which they took the lock.
Free == "free"

Goroutines == {"reader", "writer", "adder"}

Label(at, cb) == [at |-> at, cb |-> cb]

NoLocks ==
  /\ mutex = Free
  /\ pc = [reader |-> Label("Read:24", "none"),
           writer |-> Label("Write:46", "none"),
           adder |-> Label("AddFile:lock", "none")]
  /\ loc = [reader |-> NoWire, writer |-> NoWire]
  /\ lin = NewFileSet

LocksUnchanged == UNCHANGED <<mutex, pc, loc, lin>>

NoFileSet ==
  /\ fset = NewFileSet /\ wire = NoWire /\ seen = NewFileSet
  /\ NoLocks

NoErrorList == list = <<>>

ScannerUnchanged == UNCHANGED <<s, ret, t, tret, hist, prev>>

FileSetUnchanged == UNCHANGED <<fset, wire, seen>> /\ LocksUnchanged

ErrorListUnchanged == UNCHANGED list

\* A driver registers a File of the source's size and calls Init.
InitWith(Sources, bases) ==
  /\ \E src \in Sources, base \in bases :
       /\ s = InitScanner(NewFile("", base, Len(src)), src, TRUE)
       /\ t = InitScanner(NewFile("", base, Len(src)), src, FALSE)
  /\ ret = NoReturn
  /\ tret = NoReturn
  /\ op = Called("Init", "ok", <<s.file.size, Len(s.src)>>)
  /\ hist = <<>>
  /\ prev = <<>>
  /\ NoFileSet
  /\ NoErrorList

Init == InitWith(SeqsUpTo(Alphabet, MaxLen), Bases)

InitLit == InitWith(SeqsUpTo(LitAlphabet, MaxLitLen), Bases)

InitNum == InitWith(SeqsUpTo(NumAlphabet, MaxNumLen), Bases)

InitStr == InitWith(SeqsUpTo(StrAlphabet, MaxStrLen), Bases)

InitBom == InitWith(SeqsUpTo(BomAlphabet, MaxBomLen), FirstBase)

InitRe == InitWith(SeqsUpTo(ReAlphabet, MaxReLen), Bases)

InitEsc == InitWith(EscSources, FirstBase)

InitCom == InitWith(SeqsUpTo(ComAlphabet, MaxComLen), FirstBase)

InitIll == InitWith(SeqsUpTo(IllAlphabet, MaxIllLen), FirstBase)

\* The FileSets that Read and Write are called on: files have been added to
\* them, with line starts and alternate positions, and positions resolved.
PlainFileSet == AddFile(NewFileSet, "a.zo", 1, MaxLine + 1)

LinedFileSet ==
  [PlainFileSet EXCEPT
     !.files[1] = AddLineInfo(AddLine(@, MaxLine), 1, "c.zo", 7)]

FullFileSet ==
  FileSetResolved(AddFile(LinedFileSet, "b.zo", LinedFileSet.base, 0), 1)

PreparedFileSets ==
  {NewFileSet, UsedFileSet, PlainFileSet, LinedFileSet, FullFileSet}

InitSet ==
  /\ fset \in PreparedFileSets
  /\ lin = fset
  /\ wire = NoWire
  /\ seen = NewFileSet
  /\ op = Called("NewFileSet", "ok", <<>>)
  /\ mutex = Free
  /\ pc = [reader |-> Label("Read:24", "none"),
           writer |-> Label("Write:46", "none"),
           adder |-> Label("AddFile:lock", "none")]
  /\ loc = [reader |-> NoWire, writer |-> NoWire]
  /\ NoScanner
  /\ NoErrorList

InitErr ==
  /\ list = <<>>
  /\ op = Called("New", "ok", <<>>)
  /\ NoScanner
  /\ NoFileSet

Returned(r, n) == [pos |-> r.pos, tok |-> r.tok, lit |-> r.lit, n |-> n]

\* One call of Scan on each of the two scanners.
Scanned(r, q) ==
  /\ s' = r.m
  /\ ret' = Returned(r, ret.n + 1)
  /\ t' = q.m
  /\ tret' = Returned(q, tret.n + 1)
  /\ hist' = Append(hist, Returned(r, ret.n + 1))

ScanCall ==
  /\ ret.n < Len(s.src) + ExtraScans
  /\ Scanned(Scan(s), Scan(t))
  /\ op' = Called("Scan", "ok", <<>>)
  /\ UNCHANGED prev
  /\ FileSetUnchanged /\ ErrorListUnchanged

\* What a pass leaves behind when the scanner is initialised again.
Pass ==
  [hist |-> hist, ErrorCount |-> s.ErrorCount, lines |-> s.file.lines,
   eof |-> ret.tok = "EOF"]

\* The sources a used scanner is initialised with again, on the File it
\* holds: the source it has scanned, and sources a byte shorter and a byte
\* longer, for which the File has not been registered.
RescanSources(src) ==
  {src, src \o <<chr.x>>} \cup (IF src = <<>> THEN {} ELSE {Front(src)})

\* Mutants of Init: one that assigns file and src before it compares the
\* sizes, and one that does not reset ErrorCount.
Initialised_assignsBeforeCheck(file, tfile, src) ==
  IF file.size # Len(src)
  THEN /\ op' = Called("Init", "panic", <<file.size, Len(src)>>)
       /\ s' = [s EXCEPT !.file = file, !.src = src]
       /\ t' = [t EXCEPT !.file = tfile, !.src = src]
       /\ UNCHANGED <<ret, tret, hist, prev>>
  ELSE /\ s' = InitScanner(file, src, TRUE)
       /\ t' = InitScanner(tfile, src, FALSE)
       /\ ret' = NoReturn
       /\ tret' = NoReturn
       /\ op' = Called("Init", "ok", <<file.size, Len(src)>>)
       /\ hist' = <<>>
       /\ prev' = Append(prev, Pass)

Initialised_keepsErrorCount(file, tfile, src) ==
  IF file.size # Len(src)
  THEN /\ op' = Called("Init", "panic", <<file.size, Len(src)>>)
       /\ UNCHANGED <<s, ret, t, tret, hist, prev>>
  ELSE /\ s' = [InitScanner(file, src, TRUE) EXCEPT
                  !.ErrorCount = @ + s.ErrorCount]
       /\ t' = [InitScanner(tfile, src, FALSE) EXCEPT
                  !.ErrorCount = @ + t.ErrorCount]
       /\ ret' = NoReturn
       /\ tret' = NoReturn
       /\ op' = Called("Init", "ok", <<file.size, Len(src)>>)
       /\ hist' = <<>>
       /\ prev' = Append(prev, Pass)

\* Init(file, src, err) on both scanners: a panic before any assignment when
\* the sizes differ.
Initialised(file, tfile, src) ==
  IF file.size # Len(src)
  THEN /\ op' = Called("Init", "panic", <<file.size, Len(src)>>)
       /\ UNCHANGED <<s, ret, t, tret, hist, prev>>
  ELSE /\ s' = InitScanner(file, src, TRUE)
       /\ t' = InitScanner(tfile, src, FALSE)
       /\ ret' = NoReturn
       /\ tret' = NoReturn
       /\ op' = Called("Init", "ok", <<file.size, Len(src)>>)
       /\ hist' = <<>>
       /\ prev' = Append(prev, Pass)

InitCall ==
  /\ Len(prev) < MaxInits
  /\ \E src \in RescanSources(s.src) : Initialised(s.file, t.file, src)
  /\ FileSetUnchanged /\ ErrorListUnchanged

\* The calls on a FileSet that hold its lock from their first statement to
\* their last: each is one step, taken when the lock is free.
AddLineCall ==
  /\ mutex = Free
  /\ \E i \in 1..Len(fset.files), offset \in 1..MaxLine :
       /\ fset' = [fset EXCEPT !.files[i] = AddLine(@, offset)]
       /\ lin' = [lin EXCEPT !.files[i] = AddLine(@, offset)]
  /\ op' = Called("AddLine", "ok", <<>>)
  /\ UNCHANGED <<wire, seen, mutex, pc, loc>>
  /\ ScannerUnchanged /\ ErrorListUnchanged

\* A line directive at the start of a file: the text from its second byte on
\* is line 7 of a file that is not in the set.
AddLineInfoCall ==
  /\ mutex = Free
  /\ \E i \in 1..Len(fset.files) :
       /\ fset' = [fset EXCEPT !.files[i] = AddLineInfo(@, 1, "c.zo", 7)]
       /\ lin' = [lin EXCEPT !.files[i] = AddLineInfo(@, 1, "c.zo", 7)]
  /\ op' = Called("AddLineInfo", "ok", <<>>)
  /\ UNCHANGED <<wire, seen, mutex, pc, loc>>
  /\ ScannerUnchanged /\ ErrorListUnchanged

PositionCall ==
  /\ mutex = Free
  /\ \E p \in 0..fset.base :
       /\ fset' = FileSetResolved(fset, p)
       /\ lin' = FileSetResolved(lin, p)
  /\ op' = Called("Position", "ok", <<>>)
  /\ UNCHANGED <<wire, seen, mutex, pc, loc>>
  /\ ScannerUnchanged /\ ErrorListUnchanged

\* The calls on an ErrorList.
AddCall ==
  /\ Len(list) < MaxErrs
  /\ \E pos \in ErrorPositions, msg \in Messages : list' = Add(list, pos, msg)
  /\ op' = Called("Add", "ok", <<>>)
  /\ ScannerUnchanged /\ FileSetUnchanged

SortCall ==
  /\ list' = Sort(list)
  /\ op' = Called("Sort", "ok", <<list>>)
  /\ ScannerUnchanged /\ FileSetUnchanged

RemoveMultiplesCall ==
  /\ list' = RemoveMultiples(list)
  /\ op' = Called("RemoveMultiples", "ok", <<list>>)
  /\ ScannerUnchanged /\ FileSetUnchanged

\* Read, Write and AddFile called from three goroutines on the FileSet
\* fset, one step for each statement.  A step of goroutine g to the
\* statement at.
Goto(g, at) == pc' = [pc EXCEPT ![g] = Label(at, "none")]

InitLock ==
  /\ fset = UsedFileSet
  /\ lin = UsedFileSet
  /\ wire = NoWire
  /\ seen = NewFileSet
  /\ mutex = Free
  /\ pc = [reader |-> Label("Read:24", "none"),
           writer |-> Label("Write:46", "none"),
           adder |-> Label("AddFile:lock", "none")]
  /\ loc = [reader |-> NoWire, writer |-> NoWire]
  /\ op = Called("NewFileSet", "ok", <<>>)
  /\ NoScanner
  /\ NoErrorList

\* What decode can fill in: an empty file set, or what a Write has stored.
Decodable ==
  {Written(NewFileSet)} \cup (IF wire = NoWire THEN {} ELSE {wire})

\* Mutant of the return of decode: Read goes on after an error of decode.
ReadDecode_ignoresError ==
  /\ pc.reader.at = "Read:24"
  /\ pc.reader.cb \in {"none", "returned"}
  /\ \E decodeFailed \in BOOLEAN, ss \in Decodable :
       /\ Goto("reader", "Read:28")
       /\ loc' = [loc EXCEPT !.reader = ss]
       /\ op' = IF decodeFailed THEN Called("Read", "error", <<>>) ELSE op
  /\ UNCHANGED <<fset, wire, seen, mutex, lin>>
  /\ ScannerUnchanged /\ ErrorListUnchanged

\* Read, lines 23-26: decode returns; with an error Read returns it.
ReadDecode ==
  /\ pc.reader.at = "Read:24"
  /\ pc.reader.cb \in {"none", "returned"}
  /\ \E decodeFailed \in BOOLEAN, ss \in Decodable :
       IF decodeFailed
       THEN /\ Goto("reader", "Read:24")
            /\ loc' = [loc EXCEPT !.reader = NoWire]
            /\ op' = Called("Read", "error", <<>>)
       ELSE /\ Goto("reader", "Read:28")
            /\ loc' = [loc EXCEPT !.reader = ss]
            /\ op' = op
  /\ UNCHANGED <<fset, wire, seen, mutex, lin>>
  /\ ScannerUnchanged /\ ErrorListUnchanged

\* Mutant of line 28: Read goes on without the lock.
ReadLock_skipsLock ==
  /\ pc.reader.at = "Read:28"
  /\ lin' = Read(lin, FALSE, loc.reader)
  /\ Goto("reader", "Read:29")
  /\ UNCHANGED <<fset, wire, seen, op, loc, mutex>>
  /\ ScannerUnchanged /\ ErrorListUnchanged

\* Read, line 28: s.mutex.Lock().
ReadLock ==
  /\ pc.reader.at = "Read:28"
  /\ mutex = Free
  /\ mutex' = "reader"
  /\ lin' = Read(lin, FALSE, loc.reader)
  /\ Goto("reader", "Read:29")
  /\ UNCHANGED <<fset, wire, seen, op, loc>>
  /\ ScannerUnchanged /\ ErrorListUnchanged

\* Read, line 29: s.base = ss.Base.
ReadBase ==
  /\ pc.reader.at = "Read:29"
  /\ fset' = [fset EXCEPT !.base = loc.reader.Base]
  /\ Goto("reader", "Read:30")
  /\ UNCHANGED <<wire, seen, op, mutex, loc, lin>>
  /\ ScannerUnchanged /\ ErrorListUnchanged

\* Mutant of lines 30-35: the files come back without their infos.
ReadFiles_dropsInfos ==
  /\ pc.reader.at = "Read:30"
  /\ fset' = [fset EXCEPT !.files = [i \in 1..Len(loc.reader.Files) |->
                 [restoredFile(loc.reader.Files[i]) EXCEPT !.infos = <<>>]]]
  /\ Goto("reader", "Read:36")
  /\ UNCHANGED <<wire, seen, op, mutex, loc, lin>>
  /\ ScannerUnchanged /\ ErrorListUnchanged

\* Read, lines 30-35: s.files = files.
ReadFiles ==
  /\ pc.reader.at = "Read:30"
  /\ fset' = [fset EXCEPT !.files = [i \in 1..Len(loc.reader.Files) |->
                                       restoredFile(loc.reader.Files[i])]]
  /\ Goto("reader", "Read:36")
  /\ UNCHANGED <<wire, seen, op, mutex, loc, lin>>
  /\ ScannerUnchanged /\ ErrorListUnchanged

\* Read, line 36: s.last = nil.
ReadLast ==
  /\ pc.reader.at = "Read:36"
  /\ fset' = [fset EXCEPT !.last = 0]
  /\ Goto("reader", "Read:37")
  /\ UNCHANGED <<wire, seen, op, mutex, loc, lin>>
  /\ ScannerUnchanged /\ ErrorListUnchanged

\* Read, line 37: s.mutex.Unlock().
ReadUnlock ==
  /\ pc.reader.at = "Read:37"
  /\ mutex' = Free
  /\ Goto("reader", "Read:39")
  /\ UNCHANGED <<fset, wire, seen, op, loc, lin>>
  /\ ScannerUnchanged /\ ErrorListUnchanged

\* Read, line 39: return nil.
ReadReturn ==
  /\ pc.reader.at = "Read:39"
  /\ op' = Called("Read", "ok", <<>>)
  /\ loc' = [loc EXCEPT !.reader = NoWire]
  /\ Goto("reader", "Read:24")
  /\ UNCHANGED <<fset, wire, seen, mutex, lin>>
  /\ ScannerUnchanged /\ ErrorListUnchanged

\* Write, line 46: s.mutex.Lock().
WriteLock ==
  /\ pc.writer.at = "Write:46"
  /\ mutex = Free
  /\ mutex' = "writer"
  /\ Goto("writer", "Write:47")
  /\ UNCHANGED <<fset, wire, seen, op, loc, lin>>
  /\ ScannerUnchanged /\ ErrorListUnchanged

\* Write, line 47: ss.Base = s.base.
WriteBase ==
  /\ pc.writer.at = "Write:47"
  /\ loc' = [loc EXCEPT !.writer = [Base |-> fset.base, Files |-> <<>>]]
  /\ Goto("writer", "Write:48")
  /\ UNCHANGED <<fset, wire, seen, op, mutex, lin>>
  /\ ScannerUnchanged /\ ErrorListUnchanged

\* Write, lines 48-52: ss.Files = files.
WriteFiles ==
  /\ pc.writer.at = "Write:48"
  /\ loc' = [loc EXCEPT !.writer.Files = Written(fset).Files]
  /\ seen' = fset
  /\ Goto("writer", "Write:53")
  /\ UNCHANGED <<fset, wire, op, mutex, lin>>
  /\ ScannerUnchanged /\ ErrorListUnchanged

\* Mutant of line 53: the lock is kept while encode runs.
WriteUnlock_keepsLock ==
  /\ pc.writer.at = "Write:53"
  /\ Goto("writer", "Write:55")
  /\ UNCHANGED <<fset, wire, seen, op, loc, lin, mutex>>
  /\ ScannerUnchanged /\ ErrorListUnchanged

\* Write, line 53: s.mutex.Unlock().
WriteUnlock ==
  /\ pc.writer.at = "Write:53"
  /\ mutex' = Free
  /\ Goto("writer", "Write:55")
  /\ UNCHANGED <<fset, wire, seen, op, loc, lin>>
  /\ ScannerUnchanged /\ ErrorListUnchanged

\* Write, line 55: encode returns, and Write returns its error.
WriteEncode ==
  /\ pc.writer.at = "Write:55"
  /\ pc.writer.cb \in {"none", "returned"}
  /\ \E encodeFailed \in BOOLEAN :
       /\ wire' = IF encodeFailed THEN wire ELSE loc.writer
       /\ op' = Called("Write", IF encodeFailed THEN "error" ELSE "ok", <<>>)
  /\ loc' = [loc EXCEPT !.writer = NoWire]
  /\ Goto("writer", "Write:46")
  /\ UNCHANGED <<fset, seen, mutex, lin>>
  /\ ScannerUnchanged /\ ErrorListUnchanged

\* decode or encode, while it runs, calls s.Base(), which locks the mutex,
\* reads s.base and unlocks the mutex.
CallbackCall ==
  /\ \E g \in {"reader", "writer"} :
       /\ pc[g].at \in {"Read:24", "Write:55"}
       /\ pc[g].cb = "none"
       /\ pc' = [pc EXCEPT ![g].cb = "called"]
  /\ UNCHANGED <<fset, wire, seen, op, mutex, loc, lin>>
  /\ ScannerUnchanged /\ ErrorListUnchanged

CallbackLock ==
  /\ \E g \in {"reader", "writer"} :
       /\ pc[g].cb = "called"
       /\ mutex = Free
       /\ mutex' = g
       /\ pc' = [pc EXCEPT ![g].cb = "locked"]
  /\ UNCHANGED <<fset, wire, seen, op, loc, lin>>
  /\ ScannerUnchanged /\ ErrorListUnchanged

CallbackUnlock ==
  /\ \E g \in {"reader", "writer"} :
       /\ pc[g].cb = "locked"
       /\ mutex' = Free
       /\ pc' = [pc EXCEPT ![g].cb = "returned"]
  /\ UNCHANGED <<fset, wire, seen, op, loc, lin>>
  /\ ScannerUnchanged /\ ErrorListUnchanged

\* AddFile with a base the FileSet accepts: the lock, the registration of a
\* file under a name not yet in use, the unlock.
AddFileLock ==
  /\ pc.adder.at = "AddFile:lock"
  /\ FileNames \ {fset.files[i].name : i \in 1..Len(fset.files)} # {}
  /\ mutex = Free
  /\ mutex' = "adder"
  /\ Goto("adder", "AddFile:body")
  /\ UNCHANGED <<fset, wire, seen, op, loc, lin>>
  /\ ScannerUnchanged /\ ErrorListUnchanged

AddFileBody ==
  /\ pc.adder.at = "AddFile:body"
  /\ AddFileAccepts(fset, fset.base, MaxLine)
  /\ \E name \in FileNames \ {fset.files[i].name : i \in 1..Len(fset.files)} :
       /\ fset' = AddFile(fset, name, fset.base, MaxLine)
       /\ lin' = AddFile(lin, name, lin.base, MaxLine)
  /\ Goto("adder", "AddFile:unlock")
  /\ UNCHANGED <<wire, seen, op, mutex, loc>>
  /\ ScannerUnchanged /\ ErrorListUnchanged

AddFileUnlock ==
  /\ pc.adder.at = "AddFile:unlock"
  /\ mutex' = Free
  /\ op' = Called("AddFile", "ok", <<>>)
  /\ Goto("adder", "AddFile:lock")
  /\ UNCHANGED <<fset, wire, seen, loc, lin>>
  /\ ScannerUnchanged /\ ErrorListUnchanged

Next == ScanCall

NextRe == ScanCall \/ InitCall

NextSet ==
  \/ AddLineCall
  \/ AddLineInfoCall
  \/ PositionCall
  \/ ReadDecode
  \/ ReadLock
  \/ ReadBase
  \/ ReadFiles
  \/ ReadLast
  \/ ReadUnlock
  \/ ReadReturn
  \/ WriteLock
  \/ WriteBase
  \/ WriteFiles
  \/ WriteUnlock
  \/ WriteEncode

NextErr == AddCall \/ SortCall \/ RemoveMultiplesCall

NextLock ==
  \/ ReadDecode
  \/ ReadLock
  \/ ReadBase
  \/ ReadFiles
  \/ ReadLast
  \/ ReadUnlock
  \/ ReadReturn
  \/ WriteLock
  \/ WriteBase
  \/ WriteFiles
  \/ WriteUnlock
  \/ WriteEncode
  \/ CallbackCall
  \/ CallbackLock
  \/ CallbackUnlock
  \/ AddFileLock
  \/ AddFileBody
  \/ AddFileUnlock

Spec == Init /\ [][Next]_vars

SpecLit == InitLit /\ [][Next]_vars

SpecNum == InitNum /\ [][Next]_vars

SpecStr == InitStr /\ [][Next]_vars

SpecBom == InitBom /\ [][Next]_vars

SpecRe == InitRe /\ [][NextRe]_vars

SpecEsc == InitEsc /\ [][Next]_vars

SpecCom == InitCom /\ [][Next]_vars

SpecIll == InitIll /\ [][Next]_vars

SpecSet == InitSet /\ [][NextSet]_vars

SpecErr == InitErr /\ [][NextErr]_vars

SpecLock == InitLock /\ [][NextLock]_vars

\* The goroutines are scheduled again and again, and a goroutine that waits
\* for the mutex gets it when it is unlocked again and again.
Fairness ==
  /\ WF_vars(ReadDecode) /\ WF_vars(ReadBase) /\ WF_vars(ReadFiles)
  /\ WF_vars(ReadLast) /\ WF_vars(ReadUnlock) /\ WF_vars(ReadReturn)
  /\ WF_vars(WriteBase) /\ WF_vars(WriteFiles) /\ WF_vars(WriteUnlock)
  /\ WF_vars(WriteEncode)
  /\ WF_vars(CallbackUnlock)
  /\ WF_vars(AddFileBody) /\ WF_vars(AddFileUnlock)
  /\ SF_vars(ReadLock) /\ SF_vars(WriteLock) /\ SF_vars(AddFileLock)
  /\ \A g \in {"reader", "writer"} :
       SF_vars(CallbackLock /\ mutex' = g)

SpecLockFair == SpecLock /\ Fairness

-----------------------------------------------------------------------------
\* Vocabulary of the properties.

LiteralKinds == {"IDENT", "BOOL", "INT", "FLOAT", "STRING", "RAWSTRING"}

\* The local offset of the token last returned.
TokOffset == ret.pos - s.file.base

\* The handler calls made during the step s -> s'.
NewCalls == SubSeq(s'.calls, Len(s.calls) + 1, Len(s'.calls))

\* The calls of a log that carry a message.
WithMsg(calls, msg) == {i \in 1..Len(calls) : calls[i].msg = msg}

\* The byte of src at a 0-based offset, eof beyond the end.
At(src, o) == IF o < Len(src) THEN src[o + 1] ELSE eof

IsDecimal(b) == chr.d0 <= b /\ b <= chr.d9

IsHex(b) ==
  IsDecimal(b) \/ (chr.a <= b /\ b <= chr.f) \/ (chr.A <= b /\ b <= chr.F)

-----------------------------------------------------------------------------
\* C1.  With a handler installed, ErrorCount equals the number of handler
\* calls since Init (those made inside Init included), after Init and after
\* every Scan call.
C1_ErrorCountIsHandlerCalls == s.ErrorCount = Len(s.calls)

\* Scanned to EOF, with an error raised inside Init (the NUL at offset 0 is
\* decoded by Init) and another raised by Scan.
C1_Witness ==
  /\ ret.tok = "EOF"
  /\ Len(s.calls) >= 3
  /\ s.calls[1].msg = "illegal character NUL"
  /\ s.calls[1].pos.Offset = 0
  /\ WithMsg(s.calls, "string literal not terminated") # {}

\* C2.  A Scan call made while the current rune is not the end-of-input rune
\* strictly increases the offset, so at most len(src) calls return a token
\* that is not EOF: every call after the len(src)-th returns EOF.
C2_ForwardProgress ==
  [][ /\ s.ch # eof => s'.offset > s.offset
      /\ ret'.n > Len(s.src) => ret'.tok = "EOF" ]_vars

\* The worst case: every byte of a source of three or more bytes was a token
\* of its own, and the call after them returned EOF.
C2_Witness ==
  /\ Len(s.src) >= 3
  /\ ret.n = Len(s.src) + 1
  /\ ret.tok = "EOF"
  /\ s.ErrorCount >= Len(s.src)
  /\ \A i \in 1..Len(s.src) : s.src[i] \in {chr.amp, chr.nul}

\* C3.  Once Scan has returned EOF, the next Scan call returns EOF at the
\* same position (file base + size) with an empty literal, and changes
\* neither ErrorCount, nor the handler's log, nor the File, nor offset and
\* rdOffset; the same holds of the scanner without a handler.
C3_EofAbsorbing ==
  [][ /\ ret.tok = "EOF" =>
           /\ ret'.tok = "EOF" /\ ret'.lit = <<>>
           /\ ret'.pos = ret.pos
           /\ ret.pos = s.file.base + s.file.size
           /\ s'.ErrorCount = s.ErrorCount /\ s'.calls = s.calls
           /\ s'.file = s.file
           /\ s'.offset = s.offset /\ s'.rdOffset = s.rdOffset
      /\ tret.tok = "EOF" =>
           /\ tret'.tok = "EOF" /\ tret'.lit = <<>> /\ tret'.pos = tret.pos
           /\ t'.ErrorCount = t.ErrorCount /\ t'.file = t.file
           /\ t'.offset = t.offset /\ t'.rdOffset = t.rdOffset ]_vars

\* A source that is one identifier, a newline and an illegal character: the
\* third call returns EOF and the fourth and fifth calls are made after it.
C3_Witness ==
  /\ s.src = <<chr.x, chr.x, chr.nl, chr.nul>>
  /\ ret.n = 5
  /\ ret.tok = "EOF"
  /\ s.ErrorCount = 2
  /\ s.file.lines = <<0, 3>>

\* C4.  The scanner with a handler and the scanner without one return the
\* same (position, token, literal) at each Scan call and have the same
\* ErrorCount, line table and reading position after it; the one without a
\* handler notifies nobody.
C4_HandlerDoesNotChangeControlFlow ==
  /\ ret = tret
  /\ s.ErrorCount = t.ErrorCount
  /\ s.file = t.file
  /\ s.ch = t.ch /\ s.offset = t.offset /\ s.rdOffset = t.rdOffset
  /\ t.calls = <<>>

\* Both scanners have counted errors on two lines, and only one has a log.
C4_Witness ==
  /\ ret.tok = "EOF"
  /\ t.ErrorCount >= 2
  /\ Len(s.calls) = t.ErrorCount
  /\ Len(t.file.lines) >= 2
  /\ \E i, j \in 1..Len(s.calls) : s.calls[i].pos.Line # s.calls[j].pos.Line

\* C5.  The literal of a token of a literal kind is the source text from the
\* token's offset on, and the scanner's offset after the call is the
\* token's offset plus the literal's length.
C5_LiteralIsSourceText ==
  ret.tok \in LiteralKinds =>
    /\ TokOffset >= 0
    /\ TokOffset + Len(ret.lit) <= Len(s.src)
    /\ ret.lit = Slice(s.src, TokOffset, TokOffset + Len(ret.lit))
    /\ s.offset = TokOffset + Len(ret.lit)
    /\ Len(ret.lit) > 0

\* An erroneous number that starts with '.' after an unterminated string:
\* the token ".0" follows the string on the next line.
C5_WitnessDot ==
  /\ ret.tok = "FLOAT"
  /\ ret.lit = <<chr.dot, chr.d0>>
  /\ TokOffset = 2
  /\ WithMsg(s.calls, "string literal not terminated") # {}

\* The offset of the first byte after the run of decimal digits (of
\* hexadecimal digits) that starts at offset o.
DecimalRunEnd(src, o) ==
  CHOOSE k \in o..Len(src) :
    /\ \A i \in o..(k - 1) : IsDecimal(At(src, i))
    /\ ~IsDecimal(At(src, k))

HexRunEnd(src, o) ==
  CHOOSE k \in o..Len(src) :
    /\ \A i \in o..(k - 1) : IsHex(At(src, i))
    /\ ~IsHex(At(src, k))

\* The calls among the new ones that carry the message, and their offsets.
NewWithMsg(msg) == WithMsg(NewCalls, msg)

NewOffsets(msg) == {NewCalls[i].pos.Offset : i \in NewWithMsg(msg)}

\* The local offset of the token the step s -> s' returns.
NewTokOffset == ret'.pos - s.file.base

\* C6.  For a token that starts with '0' not followed by x or X, with k the
\* end of its run of decimal digits: if the byte at k is '.', 'e' or 'E' the
\* token is FLOAT and no "illegal octal number" is reported; otherwise the
\* token is INT and "illegal octal number" is reported once, at the token's
\* offset, if the run holds an 8 or a 9, and not at all if it does not.
C6_OctalOrFloat ==
  [][ LET o == NewTokOffset
          k == DecimalRunEnd(s.src, o)
          octal == "illegal octal number"
      IN  (/\ At(s.src, o) = chr.d0
           /\ At(s.src, o + 1) \notin {chr.x, chr.X}) =>
            IF At(s.src, k) \in {chr.dot, chr.e, chr.E}
            THEN ret'.tok = "FLOAT" /\ NewWithMsg(octal) = {}
            ELSE /\ ret'.tok = "INT"
                 /\ ret'.lit = Slice(s.src, o, k)
                 /\ IF \E i \in o..(k - 1) : At(s.src, i) \in {chr.d8, chr.d9}
                    THEN /\ Cardinality(NewWithMsg(octal)) = 1
                         /\ NewOffsets(octal) = {o}
                    ELSE NewWithMsg(octal) = {} ]_vars

\* "078" in front of an 'x': INT with the one octal error at its first byte.
C6_WitnessOctal ==
  /\ ret.tok = "INT"
  /\ ret.lit = <<chr.d0, chr.d7, chr.d8>>
  /\ At(s.src, s.offset) = chr.x
  /\ \E i \in WithMsg(s.calls, "illegal octal number") :
       s.calls[i].pos.Offset = TokOffset
  /\ s.ErrorCount = 1

\* C7.  A token that starts with "0x" or "0X" is INT, its literal is the
\* prefix and the run of hexadecimal digits after it, and "illegal
\* hexadecimal number" is reported once, at the token's offset, if the run is
\* empty, and not at all if it is not.
C7_HexPrefix ==
  [][ LET o == NewTokOffset
          k == HexRunEnd(s.src, o + 2)
          hex == "illegal hexadecimal number"
      IN  (/\ At(s.src, o) = chr.d0
           /\ At(s.src, o + 1) \in {chr.x, chr.X}) =>
            /\ ret'.tok = "INT"
            /\ ret'.lit = Slice(s.src, o, k)
            /\ s'.offset = k
            /\ IF k = o + 2
               THEN /\ Cardinality(NewWithMsg(hex)) = 1
                    /\ NewOffsets(hex) = {o}
                    /\ ret'.lit = Slice(s.src, o, o + 2)
               ELSE NewWithMsg(hex) = {} ]_vars

\* A bare "0x" in front of a '.': INT "0x" with the one error.
C7_WitnessBarePrefix ==
  /\ ret.tok = "INT"
  /\ ret.lit = <<chr.d0, chr.x>>
  /\ At(s.src, s.offset) = chr.dot
  /\ s.ErrorCount = 1
  /\ WithMsg(s.calls, "illegal hexadecimal number") # {}

\* The number of backslashes right before offset j, after offset o.
BackslashesBefore(src, o, j) ==
  Cardinality({k \in 1..(j - o - 1) :
                 \A i \in 1..k : At(src, j - i) = chr.bs})

\* The offset of the first newline after offset o (the length of src if
\* there is none): where a string that opens at o ends at the latest.
LineEnd(src, o) ==
  CHOOSE k \in (o + 1)..Len(src) :
    /\ \A i \in (o + 1)..(k - 1) : At(src, i) # chr.nl
    /\ At(src, k) \in {chr.nl, eof}

\* The string that opens at offset o has a closing quote on its line: a quote
\* character that is not escaped.
Closed(src, o) ==
  \E j \in (o + 1)..(LineEnd(src, o) - 1) :
    /\ At(src, j) = At(src, o)
    /\ BackslashesBefore(src, o, j) % 2 = 0

\* C8.  A token that opens with a quote and has no closing quote before the
\* newline or the end of the source is STRING for '"' and RAWSTRING for "'",
\* reports "string literal not terminated" once, at the opening quote, has as
\* literal the text up to the newline, and leaves the newline unconsumed.
C8_UnterminatedString ==
  [][ LET o == NewTokOffset
          k == LineEnd(s.src, o)
          msg == "string literal not terminated"
      IN  (/\ At(s.src, o) \in {chr.dq, chr.sq}
           /\ ~Closed(s.src, o)) =>
            /\ ret'.tok = IF At(s.src, o) = chr.dq THEN "STRING"
                          ELSE "RAWSTRING"
            /\ Cardinality(NewWithMsg(msg)) = 1
            /\ NewOffsets(msg) = {o}
            /\ ret'.lit = Slice(s.src, o, k)
            /\ s'.offset = k
            /\ s'.ch = At(s.src, k) ]_vars

\* A raw string whose last quote is escaped, ended by a newline that the
\* scanner has not consumed.
C8_WitnessEscapedQuote ==
  /\ ret.tok = "RAWSTRING"
  /\ ret.lit = <<chr.sq, chr.bs, chr.sq>>
  /\ s.ch = chr.nl
  /\ s.offset = 3
  /\ s.ErrorCount = 1
  /\ s.calls[1].msg = "string literal not terminated"
  /\ s.calls[1].pos.Offset = 0

\* The offsets after the first byte at which a byte order mark is encoded.
BomOffsets(src) ==
  {o \in 1..(Len(src) - 3) : Slice(src, o, o + 3) = BomBytes}

\* C9.  A byte order mark at offset 0 is skipped by Init with no error and
\* is never a token; each byte order mark read at an offset > 0 has exactly
\* one error, "illegal byte order mark" at its offset, and no "illegal
\* character" report when Scan returns it; at EOF the errors of this message
\* are as many as the byte order marks at offsets > 0.
C9_ByteOrderMarks ==
  LET msg == "illegal byte order mark"
      marks == WithMsg(s.calls, msg)
  IN  /\ \A o \in BomOffsets(s.src) :
           Cardinality({i \in marks : s.calls[i].pos.Offset = o})
             = IF o < s.rdOffset THEN 1 ELSE 0
      /\ \A i \in marks : s.calls[i].pos.Offset \in BomOffsets(s.src)
      /\ \A i \in 1..Len(s.calls) : s.calls[i].arg # bom
      /\ (Len(s.src) >= 3 /\ Slice(s.src, 0, 3) = BomBytes) =>
           /\ s.offset >= 3
           /\ \A i \in 1..Len(s.calls) : s.calls[i].pos.Offset >= 3
           /\ ret.n > 0 => TokOffset >= 3
      /\ (ret.tok = "ILLEGAL" /\ ret.lit = BomBytes) =>
           TokOffset \in BomOffsets(s.src)
      /\ ret.tok = "EOF" => Cardinality(marks) = Cardinality(BomOffsets(s.src))

\* A source of a silent byte order mark, a '/' and a second byte order mark,
\* which Scan has returned as ILLEGAL: one error, at offset 4.
C9_WitnessSecondMark ==
  /\ s.src = BomBytes \o <<chr.slash>> \o BomBytes
  /\ ret.tok = "ILLEGAL"
  /\ ret.lit = BomBytes
  /\ TokOffset = 4
  /\ s.ErrorCount = 1
  /\ s.calls[1].pos.Offset = 4

\* C10.  The literal returned with a COMMENT token is the text of the
\* comment, and the literal of every other token that is neither of a
\* literal kind nor ILLEGAL is empty.
C10_CommentLiteral ==
  /\ ret.tok = "COMMENT" =>
       /\ ret.lit = Slice(s.src, TokOffset, s.offset)
       /\ Len(ret.lit) >= 2
  /\ ret.tok \notin LiteralKinds \cup {"COMMENT", "ILLEGAL"} => ret.lit = <<>>

\* C11.  Every call of the error handler made during a Scan call has the
\* position of the first byte of the token that this Scan call returns.
C11_ErrorAtTokenStart ==
  [][ \A i \in 1..Len(NewCalls) : NewCalls[i].pos.Offset = NewTokOffset ]_vars

\* C12.  Init panics exactly when the size of the File differs from the
\* length of the source; a call that panics changes no field of the scanner
\* and not the File's line table, and a call that does not panic binds the
\* scanner to the source.
C12_InitPanicsOnSizeMismatch ==
  [][ op'.call = "Init" =>
        IF op'.arg[1] # op'.arg[2]
        THEN /\ op'.out = "panic"
             /\ s' = s /\ t' = t
             /\ ret' = ret /\ tret' = tret
        ELSE /\ op'.out = "ok"
             /\ s'.file.size = Len(s'.src)
             /\ Len(s'.src) = op'.arg[2] ]_vars

\* An Init that has panicked on a scanner in the middle of its pass: a token
\* returned, an error counted and a line added, all still there.
C12_Witness ==
  /\ op.call = "Init" /\ op.out = "panic"
  /\ ret.n >= 1
  /\ ret.tok # "EOF"
  /\ s.ErrorCount >= 1
  /\ Len(s.file.lines) >= 2
  /\ s.file.size = Len(s.src)

\* C13.  After Init is called again on a used scanner with the same File and
\* source, the Scan calls return what the calls of the earlier pass returned;
\* if the earlier pass had reached EOF, the File's line table stays what that
\* pass left and ErrorCount at EOF is what it was at the earlier EOF.
C13_RescanIsIdempotent ==
  \A k \in 1..Len(prev) :
    /\ \A i \in 1..Len(hist) :
         i <= Len(prev[k].hist) => hist[i] = prev[k].hist[i]
    /\ prev[k].eof => s.file.lines = prev[k].lines
    /\ (prev[k].eof /\ ret.tok = "EOF") => s.ErrorCount = prev[k].ErrorCount

\* A second pass that has reached EOF after a first one that had: three or
\* more calls in each, errors counted, and more than one line.
C13_Witness ==
  /\ Len(prev) = 1
  /\ prev[1].eof
  /\ ret.tok = "EOF"
  /\ Len(hist) >= 3
  /\ Len(prev[1].hist) >= 3
  /\ s.ErrorCount >= 1
  /\ Len(s.file.lines) >= 2

\* The offsets of the newline bytes of src, and the elements of a sequence.
NewlineOffsets(src) == {i \in 0..(Len(src) - 1) : At(src, i) = chr.nl}

Range(q) == {q[k] : k \in 1..Len(q)}

Ascending(q) == \A j, k \in 1..Len(q) : j < k => q[j] < q[k]

\* C14, as claimed.  When Scan has returned EOF the line table holds offset 0
\* and, once each, the offset i+1 of every newline byte src[i], the newline
\* that is the last byte of the source included.
C14_LinePerNewline ==
  ret.tok = "EOF" =>
    /\ Ascending(s.file.lines)
    /\ Range(s.file.lines) = {0} \cup {i + 1 : i \in NewlineOffsets(s.src)}

\* C14, amended.  When Scan has returned EOF the line table holds offset 0
\* and, once each, the offset i+1 of every newline byte src[i] that is not
\* the last byte of the source: no line starts at the end of the file.
C14_LinePerInnerNewline ==
  ret.tok = "EOF" =>
    /\ Ascending(s.file.lines)
    /\ Range(s.file.lines) =
         {0} \cup {i + 1 : i \in {j \in NewlineOffsets(s.src) :
                                   j + 1 < Len(s.src)}}

\* A newline skipped as white space, then a comment that holds the newline
\* that ends the source: one line added.
C14_Witness ==
  /\ ret.tok = "EOF"
  /\ s.src = <<chr.nl, chr.slash, chr.star, chr.nl>>
  /\ s.file.lines = <<0, 1>>
  /\ hist[1].tok = "COMMENT"

\* The offset of the first byte at or after offset o that is no white space.
FirstNonSpace(src, o) ==
  CHOOSE k \in o..Len(src) :
    /\ \A i \in o..(k - 1) : At(src, i) \in {chr.sp, chr.tab, chr.nl, chr.cr}
    /\ At(src, k) \notin {chr.sp, chr.tab, chr.nl, chr.cr}

\* The offset at which the line of offset o starts in src.
LineStart(src, o) ==
  CHOOSE b \in 0..o :
    /\ b = 0 \/ At(src, b - 1) = chr.nl
    /\ \A i \in b..(o - 1) : At(src, i) # chr.nl

\* The position of offset o of a source scanned under the file name "".
TextPosition(src, o) ==
  [Filename |-> "", Offset |-> o,
   Line |-> 1 + Cardinality({i \in NewlineOffsets(src) : i < o}),
   Column |-> 1 + o - LineStart(src, o)]

\* The FileSet a scanned File is registered in: alone at base 1, or behind a
\* file that ends right before its base.
FileSetOf(file) ==
  IF file.base = 1
  THEN [AddFile(NewFileSet, "", 1, file.size) EXCEPT !.files[1] = file]
  ELSE [AddFile(AddFile(NewFileSet, "", 1, file.base - 2), "", file.base,
                file.size) EXCEPT !.files[2] = file]

\* C15.  The position Scan returns with a token that is not EOF resolves,
\* through the FileSet and right after the call, to the offset of the first
\* byte after the white space in front of the token, to the line 1 + the
\* number of newlines before that offset and to the column 1 + the distance
\* from the start of the line; every position handed to the error handler
\* has the line and the column of its offset, which lies in the file.
C15_PositionsResolve ==
  [][ /\ ret'.tok # "EOF" =>
           FileSetPosition(FileSetOf(s'.file), ret'.pos)
             = TextPosition(s.src, FirstNonSpace(s.src, s.offset))
      /\ \A i \in 1..Len(s'.calls) :
           /\ s'.calls[i].pos.Offset \in 0..Len(s.src)
           /\ s'.calls[i].pos = TextPosition(s.src, s'.calls[i].pos.Offset)
    ]_vars

\* In a file registered at base 6, a token at offset 2, which is column 2 of
\* line 2, after an error reported on line 2.
C15_Witness ==
  /\ s.file.base = 6
  /\ ret.tok = "IDENT"
  /\ TokOffset = 2
  /\ FileSetPosition(FileSetOf(s.file), ret.pos).Line = 2
  /\ FileSetPosition(FileSetOf(s.file), ret.pos).Column = 2
  /\ \E i \in 1..Len(s.calls) : s.calls[i].pos.Line = 2

\* What a FileSet shows: its base and its files in order, each with name,
\* base, size, line starts and infos.
Observable(fs) == [base |-> fs.base, files |-> fs.files]

\* C16.  When Read unlocks the mutex after it has restored the value that
\* Write made of the FileSet seen, the FileSet has the base of seen and its
\* files in order with their names, bases, sizes, line starts and infos,
\* whatever it held before; every Pos then resolves in it to the Position it
\* resolved to in seen, and its cache is empty.  The return of Read that
\* follows reports no error and changes nothing in the FileSet, so that the
\* caller finds this state unless another goroutine has called into the
\* FileSet since the unlock.
C16_WriteReadRoundTrip ==
  [][ /\ (/\ pc.reader.at = "Read:37" /\ pc'.reader.at = "Read:39"
          /\ wire # NoWire
          /\ loc.reader = Written(seen)) =>
           /\ Observable(fset') = Observable(seen)
           /\ fset'.last = 0
           /\ \A p \in 0..(seen.base + 1) :
                FileSetPosition(fset', p) = FileSetPosition(seen, p)
      /\ (pc.reader.at = "Read:39" /\ pc'.reader # pc.reader) =>
           /\ pc'.reader.at = "Read:24"
           /\ op'.call = "Read" /\ op'.out = "ok"
           /\ fset' = fset ]_vars

\* Read has restored two files, one with a second line and an alternate
\* position, that Write has stored from a FileSet whose cache held a file.
C16_Witness ==
  /\ op.call = "Read" /\ op.out = "ok"
  /\ pc.reader.at = "Read:24"
  /\ wire = Written(seen)
  /\ Observable(fset) = Observable(seen)
  /\ Len(fset.files) = 2
  /\ \E i \in 1..2 : Len(fset.files[i].lines) = 2 /\ Len(fset.files[i].infos) = 1
  /\ seen.last # 0
  /\ fset.last = 0

\* The file and line of an entry, and a list in the order of Sort.
FileLine(e) == <<e.Pos.Filename, e.Pos.Line>>

Sorted(q) == \A i \in 1..(Len(q) - 1) : ~Less(q[i + 1], q[i])

\* C17.  Sort leaves the number of entries what it was and the list in order.
\* RemoveMultiples called right after Sort leaves one entry for each file and
\* line of the sorted list, in sorted order, and each is the first entry of
\* the sorted list with its file and line.
C17_SortRemoveMultiples ==
  [][ /\ op'.call = "Sort" => Len(list') = Len(list) /\ Sorted(list')
      /\ (op.call = "Sort" /\ op'.call = "RemoveMultiples") =>
           /\ \A i, j \in 1..Len(list') :
                i # j => FileLine(list'[i]) # FileLine(list'[j])
           /\ Sorted(list')
           /\ {FileLine(list'[i]) : i \in 1..Len(list')}
                = {FileLine(list[i]) : i \in 1..Len(list)}
           /\ \A i \in 1..Len(list') :
                \E k \in 1..Len(list) :
                  /\ list'[i] = list[k]
                  /\ \A j \in 1..(k - 1) :
                       FileLine(list[j]) # FileLine(list[k]) ]_vars

\* RemoveMultiples has reduced a sorted list of three entries, two of them on
\* one line with different messages, to two.
C17_Witness ==
  /\ op.call = "RemoveMultiples"
  /\ Len(op.arg[1]) = 3
  /\ Sorted(op.arg[1])
  /\ \E i \in 1..2 :
       /\ FileLine(op.arg[1][i]) = FileLine(op.arg[1][i + 1])
       /\ op.arg[1][i] # op.arg[1][i + 1]
  /\ Len(list) = 2

\* C18.  For the scanned File and every offset o with 0 <= o <= size,
\* Offset(Pos(o)) = o; the offset of an "illegal character" error, which Scan
\* takes from the token's position with file.Offset(pos), is the offset at
\* which the token starts.
C18_OffsetOfPos ==
  [][ /\ \A o \in 0..s'.file.size : Offset(s'.file, Pos(s'.file, o)) = o
      /\ \A i \in NewWithMsg("illegal character %#U") :
           /\ NewCalls[i].pos.Offset = FirstNonSpace(s.src, s.offset)
           /\ NewCalls[i].pos.Offset = Offset(s'.file, ret'.pos) ]_vars

\* In a file registered at base 6, an illegal character reported at offset 2,
\* where its token starts.
C18_Witness ==
  /\ s.file.base = 6
  /\ ret.tok = "ILLEGAL"
  /\ ret.pos = 8
  /\ \E i \in WithMsg(s.calls, "illegal character %#U") :
       s.calls[i].pos.Offset = 2

\* The escape sequence of a source that begins with a quote and a backslash,
\* read off the text: the character after the backslash, the number of
\* digits its form takes, their base, the offset of the first of them, and
\* the largest value allowed as eight digits of the base.
EscChar(src) == At(src, 2)

EscCount(src) ==
  IF EscChar(src) \in 48..55 THEN 3
  ELSE IF EscChar(src) = chr.x THEN 2
  ELSE IF EscChar(src) = chr.u THEN 4
  ELSE IF EscChar(src) = chr.U THEN 8
  ELSE 0

EscBase(src) == IF EscChar(src) \in 48..55 THEN 8 ELSE 16

EscFirst(src) == IF EscChar(src) \in 48..55 THEN 2 ELSE 3

EscMax(src) ==
  IF EscChar(src) \in 48..55 THEN <<0, 0, 0, 0, 0, 3, 7, 7>>
  ELSE IF EscChar(src) = chr.x THEN <<0, 0, 0, 0, 0, 0, 15, 15>>
  ELSE <<0, 0, 1, 0, 15, 15, 15, 15>>

\* The digits of a base and the value of a digit.
DigitsOfBase(base) ==
  IF base = 8 THEN 48..55 ELSE (48..57) \cup (97..102) \cup (65..70)

DigitOf(c) ==
  IF c \in 48..57 THEN c - 48 ELSE IF c \in 97..102 THEN c - 87 ELSE c - 55

\* The offsets, among those of the digits the form takes, that hold no digit
\* of the base.
EscBad(src) ==
  {j \in EscFirst(src)..(EscFirst(src) + EscCount(src) - 1) :
     At(src, j) \notin DigitsOfBase(EscBase(src))}

\* The digits of a complete form as eight digits, zeros in front.
EscPadded(src) ==
  [k \in 1..8 |->
     IF k <= 8 - EscCount(src) THEN 0
     ELSE DigitOf(At(src, EscFirst(src) + k - (8 - EscCount(src)) - 1))]

Exceeds(a, b) ==
  \E k \in 1..8 : a[k] > b[k] /\ \A i \in 1..(k - 1) : a[i] = b[i]

\* 0xD800..0xDFFF as eight hexadecimal digits.
IsSurrogate(a) ==
  /\ \A i \in 1..4 : a[i] = 0
  /\ a[5] = 13
  /\ a[6] >= 8

Least(S) == CHOOSE j \in S : \A i \in S : j <= i

\* What the claim says of the escape sequence of src: whether it is
\* accepted, the offset scanning stops at, and the errors reported.
Reported(offs, msg, arg) == <<[Offset |-> offs, msg |-> msg, arg |-> arg]>>

EscExpected(src) ==
  IF EscChar(src) \in {chr.a, chr.b, chr.f, chr.n, chr.r, chr.t, chr.v,
                       chr.bs, src[1]}
  THEN [ok |-> TRUE, end |-> 3, errs |-> <<>>]
  ELSE IF EscCount(src) = 0
  THEN [ok |-> FALSE, end |-> 2,
        errs |-> Reported(2, IF EscChar(src) = eof
                             THEN "escape sequence not terminated"
                             ELSE "unknown escape sequence", noArg)]
  ELSE IF EscBad(src) # {}
  THEN [ok |-> FALSE, end |-> Least(EscBad(src)),
        errs |-> IF At(src, Least(EscBad(src))) = eof
                 THEN Reported(Least(EscBad(src)),
                               "escape sequence not terminated", noArg)
                 ELSE Reported(Least(EscBad(src)),
                               "illegal character %#U in escape sequence",
                               At(src, Least(EscBad(src))))]
  ELSE IF \/ Exceeds(EscPadded(src), EscMax(src))
          \/ EscBase(src) = 16 /\ IsSurrogate(EscPadded(src))
  THEN [ok |-> FALSE, end |-> EscFirst(src) + EscCount(src),
        errs |-> Reported(2, "escape sequence is invalid Unicode code point",
                          noArg)]
  ELSE [ok |-> TRUE, end |-> EscFirst(src) + EscCount(src), errs |-> <<>>]

\* The handler calls of a scanner as offset, message and argument.
Reports(calls) ==
  [i \in 1..Len(calls) |->
     [Offset |-> calls[i].pos.Offset, msg |-> calls[i].msg,
      arg |-> calls[i].arg]]

\* C19.  In a source that begins with a quote and a backslash, scanEscape
\* called after the backslash accepts one of a b f n r t v, a backslash, the
\* string's own quote, three octal digits, x and two hexadecimal digits, u
\* and four, U and eight, the digit forms only with a value of at most 255
\* (octal, x) or at most the Unicode maximum (u, U) and outside
\* 0xD800..0xDFFF, and nothing else.  A character that is no digit of the
\* form is reported at its offset as "illegal character ... in escape
\* sequence", the end of the source as "escape sequence not terminated", and
\* scanning stops in front of it; the Scan call reports these errors first
\* and returns STRING or RAWSTRING at the opening quote.
C19_EscapeSequences ==
  [][ ret.n = 0 =>
        LET m == next(next(s))
            r == scanEscape(m, s.src[1])
            e == EscExpected(s.src)
        IN  /\ r.ok = e.ok
            /\ r.m.offset = e.end
            /\ r.m.ch = At(s.src, e.end)
            /\ Reports(r.m.calls) = e.errs
            /\ r.m.ErrorCount = Len(e.errs)
            /\ Len(s'.calls) >= Len(e.errs)
            /\ Reports(SubSeq(s'.calls, 1, Len(e.errs))) = e.errs
            /\ ret'.tok = (IF s.src[1] = chr.dq THEN "STRING" ELSE "RAWSTRING")
            /\ ret'.pos = s.file.base
            /\ (At(s.src, e.end) = s.src[1] =>
                  /\ ret'.lit = Slice(s.src, 0, e.end + 1)
                  /\ Reports(s'.calls) = e.errs) ]_vars

\* The string "\x0": the closing quote stands where the second hexadecimal
\* digit should, is reported at offset 4 and closes the string.
C19_Witness ==
  /\ s.src = <<chr.dq, chr.bs, chr.x, chr.d0, chr.dq>>
  /\ ret.n = 1
  /\ ret.tok = "STRING"
  /\ ret.lit = s.src
  /\ Reports(s.calls)
       = Reported(4, "illegal character %#U in escape sequence", chr.dq)

\* The offsets of the "*/" that can close a block comment opened at o, and
\* the offset a comment opened at o ends at: the next newline or the end of
\* the source for "//", behind the first closing "*/" or the end of the
\* source for "/*".
Closers(src, o) ==
  {k \in (o + 2)..(Len(src) - 2) :
     At(src, k) = chr.star /\ At(src, k + 1) = chr.slash}

CommentEnd(src, o) ==
  IF At(src, o + 1) = chr.slash THEN LineEnd(src, o)
  ELSE IF Closers(src, o) = {} THEN Len(src)
  ELSE Least(Closers(src, o)) + 2

\* The NUL bytes Scanner.next decodes while the scanner moves from a comment
\* opened at o to its end at offset e, the character at e included.
DecodedNuls(src, o, e) ==
  {j \in (o + 2)..e : j < Len(src) /\ At(src, j) = chr.nul}

\* C20.  When the next token starts with "//" or "/*", Scan returns COMMENT
\* at its offset and stops at the next newline or the end of the source
\* ("//"), or behind the first "*/" whose '*' lies behind the opening "/*",
\* at the end of the source when there is none.  The only errors of the call
\* are those of decoding the characters read, one for each NUL byte; a
\* comment without one, closed or not, leaves ErrorCount unchanged.
C20_Comments ==
  [][ LET o == FirstNonSpace(s.src, s.offset)
          e == CommentEnd(s.src, o)
      IN  (At(s.src, o) = chr.slash
             /\ At(s.src, o + 1) \in {chr.slash, chr.star}) =>
            /\ ret'.tok = "COMMENT"
            /\ ret'.pos = s.file.base + o
            /\ s'.offset = e
            /\ \A i \in 1..Len(NewCalls) :
                 /\ NewCalls[i].msg = "illegal character NUL"
                 /\ NewCalls[i].pos.Offset \in DecodedNuls(s.src, o, e)
            /\ s'.ErrorCount - s.ErrorCount
                 = Cardinality(DecodedNuls(s.src, o, e)) ]_vars

\* The source "/*/": the third byte does not close the comment, which the
\* end of the source leaves open, and no error is counted.
C20_Witness ==
  /\ s.src = <<chr.slash, chr.star, chr.slash>>
  /\ ret.n = 1
  /\ ret.tok = "COMMENT"
  /\ s.offset = 3
  /\ s.ErrorCount = 0

\* The goroutine that takes a step, as far as its statement shows it.
Steps(g) == pc'[g] # pc[g]

\* C21.  Read and Write called from different goroutines on one FileSet,
\* together with AddFile: a step that assigns base, files or last, and a
\* step of Write that reads base or files, is taken by the holder of the
\* mutex; the value Write has put together when it unlocks is the
\* serialization of one FileSet, the one the calls that took the lock before
\* it give when each runs alone; and whenever Read is not inside its locked
\* part the FileSet is such a FileSet, with every Read before applied as a
\* whole.
C21_LockedAccess ==
  [][ /\ \A g \in Goroutines :
           (Steps(g) /\ fset' # fset) => mutex = g /\ mutex' = g
      /\ (Steps("writer") /\ pc.writer.at \in {"Write:47", "Write:48"}) =>
           mutex = "writer"
      /\ (pc.writer.at = "Write:48" /\ pc'.writer.at = "Write:53") =>
           loc'.writer = Written(lin)
      /\ mutex' # "reader" => fset' = lin' ]_vars

\* Read has assigned the new base and not yet the files, and Write waits for
\* the mutex.
C21_Witness ==
  /\ mutex = "reader"
  /\ pc.reader.at = "Read:30"
  /\ fset.base = 1
  /\ Len(fset.files) = 2
  /\ pc.writer.at = "Write:46"
  /\ wire # NoWire

\* C22.  A Read whose decode returns an error returns the error with base,
\* files and last as they were and without having locked the mutex; while
\* decode or encode runs, the goroutine that called Read or Write does not
\* hold the mutex, and a call into the FileSet that decode or encode makes
\* returns.
C22_CallbacksOutsideLock ==
  /\ [][ /\ (op' = Called("Read", "error", <<>>) /\ op' # op) =>
              /\ pc'.reader = Label("Read:24", "none")
              /\ fset' = fset
              /\ mutex' = mutex
              /\ mutex # "reader"
         /\ \A g \in {"reader", "writer"} :
              (pc'[g].at \in {"Read:24", "Write:55"} /\ pc'[g].cb # "locked")
                => mutex' # g ]_vars
  /\ \A g \in {"reader", "writer"} :
       (pc[g].cb = "called") ~> (pc[g].cb = "returned")

\* Read has returned the error of decode and left a FileSet with two files
\* as it was, while encode, called by Write, holds the mutex in a call of
\* its own.
C22_Witness ==
  /\ op = Called("Read", "error", <<>>)
  /\ pc.reader = Label("Read:24", "none")
  /\ Len(fset.files) = 2
  /\ fset = lin
  /\ pc.writer = Label("Write:55", "locked")
  /\ mutex = "writer"

\* The bytes of UTF-8 that continue a sequence, and an offset of src at
\* which no UTF-8 sequence starts, for sources in which EF (239) is the only
\* lead byte: EF starts a sequence when two continuation bytes follow it.
IsContinuation(b) == 128 <= b /\ b <= 191

InvalidAt(src, o) ==
  /\ At(src, o) >= RuneSelf
  /\ ~(/\ At(src, o) = 239
       /\ IsContinuation(At(src, o + 1))
       /\ IsContinuation(At(src, o + 2)))

\* The positions in a log of handler calls of the calls at offset o.
AtOffset(calls, o) == {i \in 1..Len(calls) : calls[i].pos.Offset = o}

\* The message and the argument of the error Scanner.next reports for the
\* byte at offset o, and of the error Scan reports for the rune it gives.
DecodeReport(src, o) ==
  IF At(src, o) = chr.nul
  THEN [msg |-> "illegal character NUL", arg |-> noArg]
  ELSE [msg |-> "illegal UTF-8 encoding", arg |-> noArg]

ScanReport(src, o) ==
  [msg |-> "illegal character %#U",
   arg |-> IF At(src, o) = chr.nul THEN chr.nul ELSE RuneError]

\* C23.  When a token starts at a NUL byte or at a byte that is no UTF-8
\* sequence, Scan returns ILLEGAL and the handler has been called twice at
\* that offset, each call counted in ErrorCount: first with the error of
\* Scanner.next ("illegal character NUL", "illegal UTF-8 encoding"), in this
\* call of Scan or before it, and then, in this call, with "illegal
\* character U+...".  When a token starts at a byte order mark, Scan returns
\* ILLEGAL and the handler has been called once at that offset, with
\* "illegal byte order mark".
C23_ReportedTwice ==
  [][ LET o == FirstNonSpace(s.src, s.offset)
          at == AtOffset(s'.calls, o)
      IN  /\ (At(s.src, o) = chr.nul \/ InvalidAt(s.src, o)) =>
                /\ ret'.tok = "ILLEGAL"
                /\ ret'.pos = s.file.base + o
                /\ Cardinality(at) = 2
                /\ \E i, j \in at :
                     /\ i < j
                     /\ j = Len(s'.calls)
                     /\ j > Len(s.calls)
                     /\ [msg |-> s'.calls[i].msg, arg |-> s'.calls[i].arg]
                          = DecodeReport(s.src, o)
                     /\ [msg |-> s'.calls[j].msg, arg |-> s'.calls[j].arg]
                          = ScanReport(s.src, o)
                /\ s'.ErrorCount = Len(s'.calls)
          /\ o \in BomOffsets(s.src) =>
                /\ ret'.tok = "ILLEGAL"
                /\ Cardinality(at) = 1
                /\ \A i \in at : s'.calls[i].msg = "illegal byte order mark"
                /\ s'.ErrorCount = Len(s'.calls) ]_vars

\* A NUL byte and, after a space, a byte that starts no UTF-8 sequence; the
\* first was reported by Init and by the first Scan, the second by the first
\* Scan, which read it while it looked ahead, and by the second Scan.
C23_Witness ==
  /\ s.src = <<chr.nul, chr.sp, 191>>
  /\ ret.n = 2
  /\ ret.tok = "ILLEGAL"
  /\ ret.pos = s.file.base + 2
  /\ s.ErrorCount = 4
  /\ [i \in 1..4 |-> s.calls[i].msg]
       = <<"illegal character NUL", "illegal character %#U",
           "illegal UTF-8 encoding", "illegal character %#U">>
  /\ [i \in 1..4 |-> s.calls[i].pos.Offset] = <<0, 0, 2, 2>>

\* The fields of a scanner m are in order: 0 <= offset <= rdOffset <=
\* len(src), and ch is the end sentinel exactly at offset = len(src).
InOrder(m) ==
  /\ 0 <= m.offset
  /\ m.offset <= m.rdOffset
  /\ m.rdOffset <= Len(m.src)
  /\ (m.ch = eof) <=> (m.offset = Len(m.src))

\* C24.  The scanner is in order before and after every call of Scan; the
\* position Scan returns lies in base..base+size; and when the call before
\* returned a token other than EOF, at position p with the scanner left at
\* offset e, so that the token took e - (p - base) >= 1 bytes, the position
\* returned now is greater than p and at least p plus that number.  So the
\* positions returned since Init increase up to the first EOF.
C24_PositionsIncrease ==
  [][ /\ InOrder(s) /\ InOrder(s')
      /\ ret'.n >= 1 =>
           /\ s.file.base <= ret'.pos
           /\ ret'.pos <= s.file.base + s.file.size
      /\ (ret.n >= 1 /\ ret.tok # "EOF" /\ ret'.n = ret.n + 1) =>
           /\ s.offset - TokOffset >= 1
           /\ ret'.pos > ret.pos
           /\ ret'.pos >= ret.pos + (s.offset - TokOffset)
           /\ ret'.pos = s.file.base + FirstNonSpace(s.src, s.offset)
      /\ \A i, j \in 1..Len(hist') :
           (i < j /\ hist'[i].tok # "EOF") => hist'[i].pos < hist'[j].pos ]_vars

\* Three tokens at the offsets 0, 1 and 3 of a file at base 6, the second a
\* string of one byte that the end of the line cuts off, and then EOF at
\* base + size with the scanner at the end of the source.
C24_Witness ==
  /\ s.src = <<chr.x, chr.dq, chr.nl, chr.d0>>
  /\ s.file.base = 6
  /\ [i \in 1..Len(hist) |-> hist[i].pos] = <<6, 7, 9, 10>>
  /\ ret.tok = "EOF"
  /\ s.offset = 4
  /\ s.ch = eof

====
